---- MODULE Spec2Model ----
(***************************************************************************)
(* Replay engine of the WebGPU debugger (src/src/replay/lib.ts): the       *)
(* resolved command tree of a loaded Replay session, the replay driver     *)
(* (execute, replayTo, executeSubmit, replaySubmitTo, encodeIn,            *)
(* encodeUpTo) and the command enumerator (iterateCommands).               *)
(*                                                                         *)
(* Paths and indices are 0-based as in the source; TLA+ sequences are      *)
(* 1-based, so commands[i] of the source is commands[i + 1] here.          *)
(*                                                                         *)
(* Every call on the live graphics context is recorded as an event         *)
(* [op, at]: op is the WebGPU call, at is the path of the command that     *)
(* issued it (the render pass's own path for a forced end).                *)
(***************************************************************************)
EXTENDS Integers, Sequences, FiniteSets, TLC

VARIABLES
    commands,   \* Replay.commands: the resolved top-level command list
    state,      \* Replay.state: the session-wide current state
    call,       \* the most recent call on the session: [op, path]
    ops,        \* live-context calls issued by the most recent call
    status,     \* how the most recent call ended: "ok" | "threw"
    unhandled,  \* the most recent call reached an "Unhandled ..." branch
    emitted,    \* the items yielded by the most recent iterateCommands
    history,    \* the session's earlier calls: [call, ops, status, state, emitted]
    trace,      \* trace.objects: category -> descriptors by serial, or absent
    pc,         \* where Replay.load stands: [at, awaiting]
    objects,    \* the wrappers constructed so far: <<category, serial>> -> fields
    registry,   \* Replay.adapters, .devices, ...: the serial-indexed fields
    handleMaps, \* the Map-valued fields of Replay, by field name
    frame,      \* locals of the suspended recreateObjectsAsync call
    pending,    \* asynchronous steps in flight: <<category, serial, step>>
    reads,      \* live handles read by constructions: [by, of, value]
    data,       \* Replay.data: the byte arrays by data serial
    sessions,   \* the sessions loaded earlier from this Trace value
    requestUnwrappedAdapter,
                \* the module-level variable loadReplay stores its function in
    loads,      \* the loadReplay calls made: [fn, awaiting, adapters]
    callerPath  \* the array passed to the most recent replayTo, after the call

replayVars ==
    <<commands, state, call, ops, status, unhandled, emitted, history,
      callerPath>>
loadVars ==
    <<trace, pc, objects, registry, handleMaps, frame, pending, reads, data,
      sessions>>
moduleVars == <<requestUnwrappedAdapter, loads>>
vars == <<replayVars, loadVars, moduleVars>>

----------------------------------------------------------------------------
(* Bounds of the model's inputs. *)

MaxCmds == 2        \* top-level commands in a trace
MaxCBs == 2         \* command buffers in a submission
MaxCBCmds == 2      \* commands in a command buffer
MaxRPCmds == 1      \* commands between a pass's begin and end markers
MaxStateCmds == 2   \* state-setting commands of the pass of a state trace
MaxCalls == 2       \* calls made on one session
MaxAdapters == 2    \* adapters (and devices, queues) of a trace
MaxPipelines == 2   \* render pipelines of a trace
MaxStream == 3      \* commands in the recorded stream of a command buffer
MaxEnumerations == 3 \* enumerations made on one session

\* The deepest path: [i, j, k, l].
PathDepth == 4

SeqsUpTo(S, n) == UNION {[1..m -> S] : m \in 0..n}

----------------------------------------------------------------------------
(* Values of the resolved tree. *)

NoPass == [commands |-> <<>>]
NoArgs == [none |-> TRUE]

\* A wrapper as a resolved command refers to it, with the live handle it
\* holds once load has completed.
Wrapper(cat, serial, handle) ==
    [category |-> cat, serial |-> serial, webgpuObject |-> handle]

\* The objects the commands of the enumerated trees refer to: one queue,
\* one buffer, one texture and one data blob.
TheQueue == Wrapper("queues", 1, <<"GPUQueue", 1, 0>>)
TheBuffer == Wrapper("buffers", 1, <<"buffers", 1, 0>>)
TheTexture == Wrapper("textures", 1, <<"textures", 1, 0>>)
TheData == [s \in {1} |-> <<0>>]

\* The resolved arguments by command kind.
QueueArgs(name) ==
    CASE name = "queueWriteBuffer" ->
            [buffer |-> TheBuffer, bufferOffset |-> 0,
             data |-> [serial |-> 1, size |-> 1]]
      [] name = "present" -> [texture |-> TheTexture]
      [] OTHER -> NoArgs

\* A resolved top-level command.
ResolvedCommand(name, cbs, queue, args) ==
    [name |-> name, commandBuffers |-> cbs, queue |-> queue, args |-> args]

QueueCommand(name, cbs) == ResolvedCommand(name, cbs, TheQueue, QueueArgs(name))
CommandBuffer(cmds) == [commands |-> cmds]
EncoderCommand(name) == [name |-> name, renderPass |-> NoPass]
RenderPassCommand(rp) == [name |-> "renderPass", renderPass |-> rp]
PassCommand(name, args) == [name |-> name, args |-> args]

\* Replay.state before any call (the field is declared and never set).
UndefinedState == [kind |-> "undefined"]
\* this.state = {}
EmptyState == [kind |-> "empty"]
\* this.state = { currentTexture: command.args.texture }
PresentState(c) == [kind |-> "present", currentTexture |-> c.args.texture]

----------------------------------------------------------------------------
(* JavaScript semantics the driver relies on. *)

\* Array.prototype.shift(): the first element, or undefined on an empty array.
Shift(path) ==
    IF path = <<>> THEN [def |-> FALSE, val |-> 0]
    ELSE [def |-> TRUE, val |-> Head(path)]

Rest(path) == IF path = <<>> THEN <<>> ELSE Tail(path)

\* i <= x and i < x - 1 are false when x is undefined (NaN comparisons).
JsLe(i, x) == x.def /\ i <= x.val
JsLtMinus1(i, x) == x.def /\ i < x.val - 1

\* The running result of a driver call; path is the array replayTo works
\* on, as the shifts made so far have left it.
Start(st) ==
    [ops |-> <<>>, state |-> st, threw |-> FALSE, unhandled |-> FALSE,
     path |-> <<>>]
\* path.shift() on that array.
Shifted(r, path) == [r EXCEPT !.path = Rest(path)]
Emit(r, op, at) == [r EXCEPT !.ops = Append(@, [op |-> op, at |-> at])]
\* A live call recorded with its receiver and its arguments.
EmitCall(r, op, at, on, args) ==
    [r EXCEPT !.ops = Append(@, [op |-> op, at |-> at, on |-> on, args |-> args])]
\* A TypeError: reading a property of undefined.
Throw(r) == [r EXCEPT !.threw = TRUE]
\* console.assert(false, `Unhandled ...`): logs and continues.
AssertUnhandled(r) == [r EXCEPT !.unhandled = TRUE]

----------------------------------------------------------------------------
(* ReplayRenderPass.encodeUpTo and encodeIn. *)

\* The command kinds of the switch in ReplayRenderPass.encodeUpTo.
PassEncodeKinds ==
    {"draw", "drawIndexed", "endPass", "popDebugGroup", "pushDebugGroup",
     "setBindGroup", "setIndexBuffer", "setPipeline", "setVertexBuffer",
     "setViewport"}

\* The live render-pass call a command kind makes.
PassCall(name) == IF name = "endPass" THEN "end" ELSE name

\* SetAt that drops the other entries of the array.
SetAtAlone(f, i, v) == [x \in {i} |-> v]

\* state.bindGroups[index] = v, state.vertexBuffers[slot] = v
SetAt(f, i, v) == [x \in (DOMAIN f) \cup {i} |-> IF x = i THEN v ELSE f[x]]

\* The snapshot a pass starts with.
InitialPassState(desc) ==
    LET firstAttachment == desc.colorAttachments[1]
    IN [kind |-> "renderPass",
        viewport |-> [x |-> 0, y |-> 0,
                      width |-> firstAttachment.width,
                      height |-> firstAttachment.height,
                      minDepth |-> 0, maxDepth |-> 1],
        colorAttachments |->
            [a \in DOMAIN desc.colorAttachments |->
                [view |-> desc.colorAttachments[a].viewState,
                 resolveTarget |-> desc.colorAttachments[a].resolveTargetState]],
        depthStencilAttachment |-> [view |-> desc.depthStencilAttachment],
        pipeline |-> "null",
        bindGroups |-> <<>>,
        vertexBuffers |-> <<>>,
        indexBuffer |-> [buffer |-> "null", offset |-> 0, size |-> 0]]

\* The snapshot after one command of the pass.
PassStateAfter(st, c) ==
    CASE c.name = "setBindGroup" ->
            [st EXCEPT !.bindGroups =
                SetAt(@, c.args.index, [group |-> c.args.bindGroup])]
      [] c.name = "setIndexBuffer" ->
            [st EXCEPT !.indexBuffer =
                [buffer |-> c.args.buffer, offset |-> c.args.offset,
                 size |-> c.args.size]]
      [] c.name = "setPipeline" ->
            [st EXCEPT !.pipeline = c.args.pipeline]
      [] c.name = "setVertexBuffer" ->
            [st EXCEPT !.vertexBuffers =
                SetAt(@, c.args.slot,
                      [buffer |-> c.args.buffer, offset |-> c.args.offset,
                       size |-> c.args.size])]
      [] c.name = "setViewport" ->
            [st EXCEPT !.viewport = c.args]
      [] OTHER -> st

\* One iteration of the loop over the pass's commands: acc is the running
\* result r, the snapshot st and the flag renderPassEnded.
PassStep(c, at, acc) ==
    IF c.name \in PassEncodeKinds
    THEN [r |-> Emit(acc.r, PassCall(c.name), at),
          st |-> PassStateAfter(acc.st, c),
          ended |-> acc.ended \/ c.name = "endPass"]
    ELSE [acc EXCEPT !.r = AssertUnhandled(@)]

\* PassLoop with the bound i < commandIndex.
RECURSIVE PassLoopExclusive(_, _, _, _, _)
PassLoopExclusive(cmds, i, commandIndex, at, acc) ==
    IF acc.r.threw \/ ~(commandIndex.def /\ i < commandIndex.val) THEN acc
    ELSE IF i >= Len(cmds) THEN [acc EXCEPT !.r = Throw(@)]
    ELSE PassLoopExclusive(cmds, i + 1, commandIndex, at,
                           PassStep(cmds[i + 1], at \o <<i>>, acc))

\* for (let i = 1; i <= commandIndex; i++)
RECURSIVE PassLoop(_, _, _, _, _)
PassLoop(cmds, i, commandIndex, at, acc) ==
    IF acc.r.threw \/ ~JsLe(i, commandIndex) THEN acc
    ELSE IF i >= Len(cmds) THEN [acc EXCEPT !.r = Throw(@)]
    ELSE PassLoop(cmds, i + 1, commandIndex, at,
                  PassStep(cmds[i + 1], at \o <<i>>, acc))

\* PassFinish without the renderPassEnded test.
PassFinishAlways(acc, at) ==
    IF acc.r.threw THEN acc.r
    ELSE Emit([acc.r EXCEPT !.state = acc.st], "end", at)

\* if (!renderPassEnded) { this.replay.state = state; renderPass.end(); }
PassFinish(acc, at) ==
    IF acc.r.threw THEN acc.r
    ELSE IF ~acc.ended
    THEN Emit([acc.r EXCEPT !.state = acc.st], "end", at)
    ELSE acc.r

\* PassEncodeUpTo without the commandIndex === 0 case: the pass is begun and
\* force-ended for the begin marker as well.
PassEncodeUpToNoBeginCase(rp, path, at, r) ==
    LET commandIndex == Shift(path)
        desc == rp.commands[1].args
    IN IF desc.colorAttachments = <<>> THEN Throw(r)
       ELSE PassFinish(
                PassLoop(rp.commands, 1, commandIndex, at,
                         [r |-> Emit(r, "beginRenderPass", at \o <<0>>),
                          st |-> InitialPassState(desc),
                          ended |-> FALSE]),
                at)

\* ReplayRenderPass.encodeUpTo(path, encoder); at is the pass's path [i, j, k].
PassEncodeUpTo(rp, path, at, r) ==
    LET commandIndex == Shift(path)
        desc == rp.commands[1].args
    IN IF desc.colorAttachments = <<>> THEN Throw(r)
       ELSE IF commandIndex.def /\ commandIndex.val = 0
       THEN [r EXCEPT !.state = [kind |-> "beginArgs", args |-> desc]]
       ELSE PassFinish(
                PassLoop(rp.commands, 1, commandIndex, at,
                         [r |-> Emit(r, "beginRenderPass", at \o <<0>>),
                          st |-> InitialPassState(desc),
                          ended |-> FALSE]),
                at)

\* ReplayRenderPass.encodeIn(encoder)
PassEncodeIn(rp, at, r) ==
    PassEncodeUpTo(rp, <<Len(rp.commands) - 1>>, at, r)

----------------------------------------------------------------------------
(* ReplayCommandBuffer.encodeUpTo and encodeIn. *)

\* The plain command kinds of the switch in ReplayCommandBuffer.encodeUpTo.
BufferEncodeKinds ==
    {"copyBufferToTexture", "copyTextureToTexture", "popDebugGroup",
     "pushDebugGroup"}

\* BufferStep without the i === commandIndex test: every pass is replayed
\* up to the path.
BufferStepAlwaysUpTo(c, isTarget, full, path, at, r) ==
    IF c.name = "renderPass"
    THEN PassEncodeUpTo(c.renderPass, path, at, r)
    ELSE IF c.name \in BufferEncodeKinds THEN Emit(r, c.name, at)
    ELSE AssertUnhandled(r)

\* One iteration of the loop over the buffer's commands; at is [i, j, k].
BufferStep(c, isTarget, full, path, at, r) ==
    IF c.name = "renderPass"
    THEN IF isTarget /\ ~full
         THEN PassEncodeUpTo(c.renderPass, path, at, Shifted(r, path))
         ELSE PassEncodeIn(c.renderPass, at, r)
    ELSE IF c.name \in BufferEncodeKinds THEN Emit(r, c.name, at)
    ELSE AssertUnhandled(r)

\* for (let i = 0; i <= commandIndex; i++)
RECURSIVE BufferLoop(_, _, _, _, _, _, _)
BufferLoop(cmds, i, commandIndex, full, path, at, r) ==
    IF r.threw \/ ~JsLe(i, commandIndex) THEN r
    ELSE IF i >= Len(cmds) THEN Throw(r)
    ELSE BufferLoop(cmds, i + 1, commandIndex, full, path, at,
                    BufferStep(cmds[i + 1], i = commandIndex.val, full, path,
                               at \o <<i>>, r))

\* ReplayCommandBuffer.encodeUpTo(path, encoder, full); at is [i, j].  The
\* path is replayTo's array unless the call comes from encodeIn (full),
\* which passes an array of its own.
BufferEncodeUpTo(cb, path, full, at, r) ==
    BufferLoop(cb.commands, 0, Shift(path), full, Rest(path), at,
               IF full THEN r ELSE Shifted(r, path))

\* ReplayCommandBuffer.encodeIn(encoder)
BufferEncodeIn(cb, at, r) ==
    BufferEncodeUpTo(cb, <<Len(cb.commands) - 1>>, TRUE, at, r)

----------------------------------------------------------------------------
(* ReplayQueue.executeSubmit and replaySubmitTo; at is [i]. *)

\* for (const commandBuffer of commandBuffers) commandBuffer.encodeIn(encoder)
RECURSIVE EncodeAll(_, _, _, _)
EncodeAll(cbs, j, at, r) ==
    IF r.threw \/ j >= Len(cbs) THEN r
    ELSE EncodeAll(cbs, j + 1, at, BufferEncodeIn(cbs[j + 1], at \o <<j>>, r))

\* this.webgpuObject.submit([encoder.finish()])
Submit(r, at) == IF r.threw THEN r ELSE Emit(r, "submit", at)

ExecuteSubmit(cbs, at, r) ==
    Submit(EncodeAll(cbs, 0, at, Emit(r, "createCommandEncoder", at)), at)

\* for (let i = 0; i < commandBufferIndex - 1; i++) commandBuffers[i].encodeIn(encoder)
RECURSIVE EncodeBefore(_, _, _, _, _)
EncodeBefore(cbs, j, commandBufferIndex, at, r) ==
    IF r.threw \/ ~JsLtMinus1(j, commandBufferIndex) THEN r
    ELSE IF j >= Len(cbs) THEN Throw(r)
    ELSE EncodeBefore(cbs, j + 1, commandBufferIndex, at,
                      BufferEncodeIn(cbs[j + 1], at \o <<j>>, r))

\* commandBuffers[commandBufferIndex].encodeUpTo(path, encoder)
EncodeTarget(cbs, commandBufferIndex, path, at, r) ==
    IF r.threw THEN r
    ELSE IF ~commandBufferIndex.def \/ commandBufferIndex.val >= Len(cbs)
    THEN Throw(r)
    ELSE BufferEncodeUpTo(cbs[commandBufferIndex.val + 1], path, FALSE,
                          at \o <<commandBufferIndex.val>>, r)

\* replaySubmitTo without its last statement: the encoder is never submitted.
ReplaySubmitToUnsubmitted(path, cbs, at, r) ==
    LET commandBufferIndex == Shift(path)
    IN EncodeTarget(cbs, commandBufferIndex, Rest(path), at,
         EncodeBefore(cbs, 0, commandBufferIndex, at,
                      Emit(r, "createCommandEncoder", at)))

\* ReplayQueue.replaySubmitTo(path, commandBuffers)
ReplaySubmitTo(path, cbs, at, r) ==
    LET commandBufferIndex == Shift(path)
    IN Submit(
         EncodeTarget(cbs, commandBufferIndex, Rest(path), at,
           EncodeBefore(cbs, 0, commandBufferIndex, at,
                        Emit(Shifted(r, path), "createCommandEncoder", at))),
         at)

----------------------------------------------------------------------------
(* Replay.execute, Replay.replayTo, Replay.endPath. *)

\* getData: this.data[serializedData.serial]; the assertion on its
\* byteLength is a TypeError when no blob has that serial.
HasData(serializedData) == serializedData.serial \in DOMAIN data
GetData(serializedData) == data[serializedData.serial]

\* WriteBufferArgs with the offset the texture write passes: 0.
WriteBufferArgsAtZero(c) ==
    [buffer |-> c.args.buffer.webgpuObject,
     bufferOffset |-> 0,
     data |-> GetData(c.args.data)]

\* The arguments of command.queue.webgpuObject.writeBuffer(...)
WriteBufferArgs(c) ==
    [buffer |-> c.args.buffer.webgpuObject,
     bufferOffset |-> c.args.bufferOffset,
     data |-> GetData(c.args.data)]

\* case 'queueWriteBuffer' of Replay.execute
WriteBuffer(c, at, r) ==
    IF HasData(c.args.data)
    THEN EmitCall(r, "writeBuffer", at, c.queue.webgpuObject, WriteBufferArgs(c))
    ELSE Throw(r)

\* Execute with a textureDestroy that destroys the live texture.
ExecuteDestroying(c, at, r) ==
    CASE c.name = "queueSubmit" -> ExecuteSubmit(c.commandBuffers, at, r)
      [] c.name = "queueWriteBuffer" -> WriteBuffer(c, at, r)
      [] c.name = "queueWriteTexture" -> Emit(r, "writeTexture", at)
      [] c.name = "present" -> [r EXCEPT !.state = PresentState(c)]
      [] c.name = "textureDestroy" -> Emit(r, "destroy", at)
      [] OTHER -> AssertUnhandled(r)

\* Replay.execute(command); at is [i].
Execute(c, at, r) ==
    CASE c.name = "queueSubmit" -> ExecuteSubmit(c.commandBuffers, at, r)
      [] c.name = "queueWriteBuffer" -> WriteBuffer(c, at, r)
      [] c.name = "queueWriteTexture" -> Emit(r, "writeTexture", at)
      [] c.name = "present" -> [r EXCEPT !.state = PresentState(c)]
      [] c.name = "textureDestroy" -> r
      [] OTHER -> AssertUnhandled(r)

\* ReplayStep that executes the target submission like the ones before
\* it: in full.
ReplayStepAlwaysInFull(c, i, replayLevel, path, r) ==
    IF c.name = "queueSubmit"
    THEN ExecuteSubmit(c.commandBuffers, <<i>>, r)
    ELSE Execute(c, <<i>>, r)

\* ReplayStep without the i === replayLevel test: every submission is
\* replayed up to the path.
ReplayStepAlwaysUpTo(c, i, replayLevel, path, r) ==
    IF c.name = "queueSubmit"
    THEN ReplaySubmitTo(path, c.commandBuffers, <<i>>, r)
    ELSE Execute(c, <<i>>, r)

\* The body of replayTo's loop for command i.
ReplayStep(c, i, replayLevel, path, r) ==
    IF c.name = "queueSubmit"
    THEN IF i = replayLevel.val
         THEN ReplaySubmitTo(path, c.commandBuffers, <<i>>, r)
         ELSE ExecuteSubmit(c.commandBuffers, <<i>>, r)
    ELSE Execute(c, <<i>>, r)

\* for (let i = 0; i <= replayLevel; i++)
RECURSIVE ReplayLoop(_, _, _, _, _)
ReplayLoop(cmds, i, replayLevel, path, r) ==
    IF r.threw \/ ~JsLe(i, replayLevel) THEN r
    ELSE IF i >= Len(cmds) THEN Throw(r)
    ELSE ReplayLoop(cmds, i + 1, replayLevel, path,
                    ReplayStep(cmds[i + 1], i, replayLevel, path, r))

\* Replay.replayTo(path): this.state = {}, then the loop.
ReplayToResult(cmds, path) ==
    ReplayLoop(cmds, 0, Shift(path), Rest(path),
               Shifted([Start(EmptyState) EXCEPT !.path = path], path))

\* Replay.endPath()
EndPath(cmds) == <<Len(cmds)>>

----------------------------------------------------------------------------
(* The command enumerator: iterateCommands at the three levels.  The       *)
(* result is the sequence of yielded items and the unhandled flag.         *)

Yield(e, path, c) == [e EXCEPT !.items = Append(@, [path |-> path, command |-> c])]
EnumUnhandled(e) == [e EXCEPT !.unhandled = TRUE]

\* The kinds ReplayRenderPass.iterateCommands yields.
PassIterateKinds ==
    {"beginRenderPass", "copyBufferToTexture", "copyTextureToTexture", "draw",
     "drawIndexed", "endPass", "popDebugGroup", "pushDebugGroup",
     "setBindGroup", "setIndexBuffer", "setPipeline", "setVertexBuffer",
     "setViewport"}

\* The kinds ReplayCommandBuffer.iterateCommands yields.
BufferIterateKinds ==
    {"copyBufferToTexture", "copyTextureToTexture", "popDebugGroup",
     "pushDebugGroup"}

\* The kinds Replay.iterateCommands yields.
QueueIterateKinds ==
    {"queueWriteBuffer", "queueWriteTexture", "present", "textureDestroy",
     "bufferUpdateData", "bufferUnmap"}

\* ReplayRenderPass.iterateCommands([i, j, k])
RECURSIVE PassIterate(_, _, _, _)
PassIterate(cmds, l, at, e) ==
    IF l >= Len(cmds) THEN e
    ELSE PassIterate(cmds, l + 1, at,
            IF cmds[l + 1].name \in PassIterateKinds
            THEN Yield(e, at \o <<l>>, cmds[l + 1])
            ELSE EnumUnhandled(e))

\* ReplayCommandBuffer.iterateCommands([i, j])
RECURSIVE BufferIterate(_, _, _, _)
BufferIterate(cmds, k, at, e) ==
    IF k >= Len(cmds) THEN e
    ELSE BufferIterate(cmds, k + 1, at,
            IF cmds[k + 1].name = "renderPass"
            THEN PassIterate(cmds[k + 1].renderPass.commands, 0, at \o <<k>>, e)
            ELSE IF cmds[k + 1].name \in BufferIterateKinds
            THEN Yield(e, at \o <<k>>, cmds[k + 1])
            ELSE EnumUnhandled(e))

\* for (let j = 0; j < c.args.commandBuffers.length; j++)
RECURSIVE SubmitIterate(_, _, _, _)
SubmitIterate(cbs, j, at, e) ==
    IF j >= Len(cbs) THEN e
    ELSE SubmitIterate(cbs, j + 1, at,
            BufferIterate(cbs[j + 1].commands, 0, at \o <<j>>, e))

\* Replay.iterateCommands()
RECURSIVE QueueIterate(_, _, _)
QueueIterate(cmds, i, e) ==
    IF i >= Len(cmds) THEN e
    ELSE QueueIterate(cmds, i + 1,
            IF cmds[i + 1].name \in QueueIterateKinds
            THEN Yield(e, <<i>>, cmds[i + 1])
            ELSE IF cmds[i + 1].name = "queueSubmit"
            THEN SubmitIterate(cmds[i + 1].commandBuffers, 0, <<i>>, e)
            ELSE EnumUnhandled(e))

IterateCommands(cmds) == QueueIterate(cmds, 0, [items |-> <<>>, unhandled |-> FALSE])

----------------------------------------------------------------------------
(* The resolved trees the session is loaded with. *)

BeginArgs ==
    [colorAttachments |->
        <<[viewState |-> "view1", resolveTargetState |-> "undefined",
           width |-> 4, height |-> 4]>>,
     depthStencilAttachment |-> "undefined"]

BeginMarker == PassCommand("beginRenderPass", BeginArgs)
EndMarker == PassCommand("endPass", NoArgs)

\* The commands a pass holds between its markers.
PassChildren ==
    {PassCommand("setPipeline", [pipeline |-> "pipeline1"]),
     PassCommand("draw", NoArgs)}

RenderPasses ==
    {[commands |-> <<BeginMarker>> \o body \o <<EndMarker>>] :
        body \in SeqsUpTo(PassChildren, MaxRPCmds)}

\* The command lists of a command buffer whose passes are all rp: copies and
\* passes in turn.
BufferBodies(rp) ==
    {body \in SeqsUpTo({EncoderCommand("copyBufferToTexture"),
                        RenderPassCommand(rp)}, MaxCBCmds) :
        \A n \in 1..(Len(body) - 1) : body[n].name # body[n + 1].name}

\* The command-buffer lists of a submission: up to MaxCBs buffers recorded
\* with the same commands.
BufferLists(body) == {[j \in 1..n |-> CommandBuffer(body)] : n \in 0..MaxCBs}

AllBufferLists ==
    UNION {BufferLists(body) : body \in UNION {BufferBodies(rp) : rp \in RenderPasses}}

PlainQueueKinds == {"queueWriteBuffer", "present", "bufferUpdateData"}

\* The traces' command lists: every submission of one trace submits cbs.
QueueCommands(cbs) ==
    {QueueCommand(n, <<>>) : n \in PlainQueueKinds}
        \cup {QueueCommand("queueSubmit", cbs)}

Trees ==
    UNION {SeqsUpTo(QueueCommands(cbs), MaxCmds) \ {<<>>} : cbs \in AllBufferLists}

\* The list a path component indexes below node n of the given level.
Below(n, level) ==
    CASE level = 1 -> n.commandBuffers
      [] level = 2 -> n.commands
      [] level = 3 -> n.renderPass.commands
      [] OTHER -> <<>>

\* The paths a caller passes for a list of nodes: every component is an index
\* of the list it addresses or one past its end (0 where there is no list).
RECURSIVE PathsFrom(_, _)
PathsFrom(list, level) ==
    {<<>>} \cup
    IF level > PathDepth THEN {}
    ELSE UNION {
            {<<i>> \o p :
                p \in PathsFrom(IF i < Len(list) THEN Below(list[i + 1], level)
                                ELSE <<>>, level + 1)} :
            i \in 0..Len(list)}

Paths(cmds) == PathsFrom(cmds, 1)

----------------------------------------------------------------------------
(* Replay.load: the reconstruction of the trace's objects.                 *)
(*                                                                         *)
(* A live handle is a triple <<type, n, m>>; a wrapper is named by its     *)
(* <<category, serial>>.  Samplers are reconstructed by the same            *)
(* recreateObjects call as buffers, which stand for them here.             *)

\* The categories in the order of load's statements.
Categories ==
    <<"adapters", "devices", "queues", "bindGroupLayouts", "pipelineLayouts",
      "shaderModules", "renderPipelines", "buffers", "textures", "textureViews",
      "querySets", "bindGroups", "commandBuffers">>
CategorySet == {Categories[n] : n \in DOMAIN Categories}
IndexOf(cat) == CHOOSE n \in DOMAIN Categories : Categories[n] = cat

\* The categories load reconstructs with recreateObjectsAsync.
AsyncCategories == {"adapters", "devices", "renderPipelines"}

\* webgpuObject before it is assigned.
Undefined == <<"undefined", 0, 0>>
Handle(type, serial) == <<type, serial, 0>>
\* pipeline.getBindGroupLayout(index)
GetBindGroupLayout(pipeline, index) == <<"GPUBindGroupLayout.of", pipeline[2], index>>

\* A descriptor field that holds the string 'auto', is undefined, or holds
\* a wrapper <<category, serial>>.
Auto == <<"auto", 0>>
Unset == <<"undefined", 0>>

\* new Map()
EmptyMap == [k \in {} |-> 0]
\* map.set(key, value)
MapSet(map, key, value) == (key :> value) @@ map

\* descMap === undefined
Absent == [present |-> FALSE, descs |-> <<>>]
Present(descs) == [present |-> TRUE, descs |-> descs]
Serials(cat) == DOMAIN trace[cat].descs
Desc(cat, serial) == trace[cat].descs[serial]

\* The positions of load.
At(where) == [at |-> where, awaiting |-> FALSE]
Awaiting(cat) == [at |-> cat, awaiting |-> TRUE]
Failed == At("failed")
Done == At("done")

\* After without the resolution of the implicit layouts: the buffers
\* follow the pipelines.
AfterWithoutImplicit(cat) ==
    IF IndexOf(cat) = Len(Categories) THEN At("commands")
    ELSE At(Categories[IndexOf(cat) + 1])

\* The statement of load that follows a category's reconstruction.
After(cat) ==
    IF cat = "renderPipelines" THEN At("implicit")
    ELSE IF IndexOf(cat) = Len(Categories) THEN At("commands")
    ELSE At(Categories[IndexOf(cat) + 1])

\* The field load stores a category's handle map in.
MapField(cat) ==
    <<cat, IF cat \in {"adapters", "devices", "queues"} THEN "ToReplayMap"
           ELSE "ReplyMap">>
\* The field declared for it.
DeclaredMapField(cat) == <<cat, "ToReplayMap">>

\* this.replay.<category>[serial]
Has(cat, serial) == registry[cat].defined /\ serial \in registry[cat].serials
WebgpuObject(cat, serial) == objects[<<cat, serial>>].webgpuObject

\* this.replay.<category>[serial] as a resolved command keeps it: the
\* wrapper, or undefined when the registry has no such serial.
NoWrapper == Wrapper("undefined", 0, Undefined)
WrapperOf(cat, serial) ==
    IF Has(cat, serial) THEN Wrapper(cat, serial, WebgpuObject(cat, serial))
    ELSE NoWrapper

\* A command of the trace: of a command buffer's stream, or of the
\* top-level list (with the serial of its queue).
TraceCommand(name, args) == [name |-> name, args |-> args]
TraceQueueCommand(name, queueSerial, args) ==
    [name |-> name, queueSerial |-> queueSerial, args |-> args]

\* The cases of the switch in ReplayRenderPass.consumeCommands: the serial
\* of the command's arguments is replaced by the wrapper.  Every other
\* command, an unrecognized one included, is kept as it was cloned.
ResolvePassCommand(c) ==
    CASE c.name = "setBindGroup" ->
            PassCommand(c.name,
                [index |-> c.args.index,
                 bindGroup |-> WrapperOf("bindGroups", c.args.bindGroupSerial)])
      [] c.name = "setPipeline" ->
            PassCommand(c.name,
                [pipeline |-> WrapperOf("renderPipelines", c.args.pipelineSerial)])
      [] c.name \in {"setIndexBuffer", "setVertexBuffer"} ->
            PassCommand(c.name,
                [x \in (DOMAIN c.args \ {"bufferSerial"}) \cup {"buffer"} |->
                    IF x = "buffer" THEN WrapperOf("buffers", c.args.bufferSerial)
                    ELSE c.args[x]])
      [] OTHER -> PassCommand(c.name, c.args)

\* The registry lookups of those cases.
PassNeeds(c) ==
    CASE c.name = "setBindGroup" -> {<<"bindGroups", c.args.bindGroupSerial, "wrapper">>}
      [] c.name = "setPipeline" -> {<<"renderPipelines", c.args.pipelineSerial, "wrapper">>}
      [] c.name \in {"setIndexBuffer", "setVertexBuffer"} ->
            {<<"buffers", c.args.bufferSerial, "wrapper">>}
      [] OTHER -> {}

\* consumeCommands with a break in place of the return of case 'endPass':
\* the pass goes on to the end of the stream.
RECURSIVE ConsumePassPastEnd(_, _, _, _)
ConsumePassPastEnd(stream, n, cmds, needs) ==
    IF n > Len(stream) THEN [commands |-> cmds, next |-> n, needs |-> needs]
    ELSE ConsumePassPastEnd(stream, n + 1,
                            Append(cmds, ResolvePassCommand(stream[n])),
                            needs \cup PassNeeds(stream[n]))

\* ReplayRenderPass.consumeCommands(beginRenderPassCommand, commandIterator):
\* the loop takes the commands from position n of the stream the command
\* buffer is iterating, up to and including the first endPass.  When the
\* stream runs out the assertion after the loop is logged and the method
\* returns.  The result is the pass's commands, the iterator's position
\* and the lookups made.
RECURSIVE ConsumePass(_, _, _, _)
ConsumePass(stream, n, cmds, needs) ==
    IF n > Len(stream) THEN [commands |-> cmds, next |-> n, needs |-> needs]
    ELSE IF stream[n].name = "endPass"
    THEN [commands |-> Append(cmds, ResolvePassCommand(stream[n])),
          next |-> n + 1, needs |-> needs]
    ELSE ConsumePass(stream, n + 1, Append(cmds, ResolvePassCommand(stream[n])),
                     needs \cup PassNeeds(stream[n]))

\* A property that holds a live handle, or a wrapper.
AsHandle(handle) == [handle |-> handle, wrapper |-> NoWrapper]
AsWrapper(wrapper) == [handle |-> Undefined, wrapper |-> wrapper]

\* case 'beginRenderPass' of ReplayCommandBuffer.consumeCommands: the views
\* of the attachments are looked up and their live handles read (a falsy
\* resolveTargetSerial, and an undefined depthStencilAttachment or
\* occlusionQuerySetSerial, are 0 here).  A timestamp write (named by the
\* serial of its query set) gets its wrapper and then
\* w.querySet = w.querySet.webgpuObject, which reads a property the write
\* does not have; the occlusion query set is
\* c.args.occlusionQuerySet = c.args.occlusionQuerySetState.
ResolveBeginArgs(args) ==
    [colorAttachments |->
        [a \in DOMAIN args.colorAttachments |->
            [viewState |-> WrapperOf("textureViews", args.colorAttachments[a].viewSerial),
             resolveTargetState |->
                 IF args.colorAttachments[a].resolveTargetSerial # 0
                 THEN WrapperOf("textureViews",
                                args.colorAttachments[a].resolveTargetSerial)
                 ELSE NoWrapper,
             width |-> args.colorAttachments[a].width,
             height |-> args.colorAttachments[a].height]],
     depthStencilAttachment |->
         IF args.depthStencilAttachment # 0
         THEN WrapperOf("textureViews", args.depthStencilAttachment)
         ELSE NoWrapper,
     timestampWrites |->
         [w \in DOMAIN args.timestampWrites |->
             [querySetState |-> WrapperOf("querySets", args.timestampWrites[w]),
              querySet |-> Undefined]],
     occlusionQuerySetState |->
         IF args.occlusionQuerySetSerial # 0
         THEN WrapperOf("querySets", args.occlusionQuerySetSerial)
         ELSE NoWrapper,
     occlusionQuerySet |->
         IF args.occlusionQuerySetSerial # 0
         THEN AsWrapper(WrapperOf("querySets", args.occlusionQuerySetSerial))
         ELSE AsHandle(Undefined)]

BeginNeeds(args) ==
    {<<"textureViews", args.colorAttachments[a].viewSerial, "argument">> :
        a \in DOMAIN args.colorAttachments}
    \cup {<<"textureViews", args.colorAttachments[a].resolveTargetSerial, "argument">> :
            a \in {b \in DOMAIN args.colorAttachments :
                     args.colorAttachments[b].resolveTargetSerial # 0}}
    \cup (IF args.depthStencilAttachment # 0
          THEN {<<"textureViews", args.depthStencilAttachment, "argument">>}
          ELSE {})
    \cup {<<"querySets", args.timestampWrites[w], "unassigned">> :
            w \in DOMAIN args.timestampWrites}
    \cup (IF args.occlusionQuerySetSerial # 0
          THEN {<<"querySets", args.occlusionQuerySetSerial, "wrapper">>}
          ELSE {})

\* The lookups of the copy commands; every other encoder command, an
\* unrecognized one included, is pushed as it was cloned.
EncoderNeeds(c) ==
    CASE c.name = "copyBufferToTexture" ->
            {<<"buffers", c.args.bufferSerial, "argument">>,
             <<"textures", c.args.textureSerial, "argument">>}
      [] c.name = "copyTextureToTexture" ->
            {<<"textures", c.args.sourceSerial, "argument">>,
             <<"textures", c.args.textureSerial, "argument">>}
      [] OTHER -> {}

\* One end of a copy as the resolver leaves it: x.bufferState (or
\* x.textureState) = the wrapper; x.buffer (or x.texture) = the wrapper's
\* live handle; delete x.buffer (or x.texture).  The property just assigned
\* is removed and the serial stays.
CopyEnd(cat, serial) ==
    [serial |-> serial, state |-> WrapperOf(cat, serial), live |-> Undefined]

\* The cases of the switch in ReplayCommandBuffer.consumeCommands other
\* than beginRenderPass: the two ends of a copy are resolved, every other
\* command is pushed as it was cloned.
ResolveEncoderCommand(c) ==
    CASE c.name = "copyBufferToTexture" ->
            [name |-> c.name, renderPass |-> NoPass,
             args |-> [source |-> CopyEnd("buffers", c.args.bufferSerial),
                       destination |-> CopyEnd("textures", c.args.textureSerial)]]
      [] c.name = "copyTextureToTexture" ->
            [name |-> c.name, renderPass |-> NoPass,
             args |-> [source |-> CopyEnd("textures", c.args.sourceSerial),
                       destination |-> CopyEnd("textures", c.args.textureSerial)]]
      [] OTHER -> EncoderCommand(c.name)

\* ReplayCommandBuffer.consumeCommands(commandIterator) from position n: a
\* beginRenderPass hands the iterator to a new render pass and pushes the
\* pseudo-command, every other command is pushed.
RECURSIVE ConsumeBuffer(_, _, _, _)
ConsumeBuffer(stream, n, cmds, needs) ==
    IF n > Len(stream) THEN [commands |-> cmds, needs |-> needs]
    ELSE IF stream[n].name = "beginRenderPass"
    THEN LET begin == PassCommand("beginRenderPass", ResolveBeginArgs(stream[n].args))
             rp == ConsumePass(stream, n + 1, <<begin>>,
                               needs \cup BeginNeeds(stream[n].args))
         IN ConsumeBuffer(stream, rp.next,
                          Append(cmds, RenderPassCommand([commands |-> rp.commands])),
                          rp.needs)
    ELSE ConsumeBuffer(stream, n + 1, Append(cmds, ResolveEncoderCommand(stream[n])),
                       needs \cup EncoderNeeds(stream[n]))

\* new ReplayCommandBuffer(replay, desc): the commands of the wrapper.
ConsumeCommands(desc) == ConsumeBuffer(desc.commands, 1, <<>>, {})

\* What a construction looks up: <<category, serial, use>>.  "receiver": a
\* method is called on the wrapper's live handle; "argument": the handle is
\* passed on; "wrapper": only the wrapper is kept.
Needs(cat, desc) ==
    CASE cat = "adapters" -> {}
      [] cat = "devices" -> {<<"adapters", desc.adapterSerial, "receiver">>}
      [] cat = "bindGroupLayouts" ->
            {<<"devices", desc.deviceSerial,
               IF desc.entries THEN "receiver" ELSE "wrapper">>}
      [] cat = "pipelineLayouts" ->
            {<<"devices", desc.deviceSerial, "receiver">>}
            \cup {<<"bindGroupLayouts", desc.bindGroupLayoutsSerial[n], "argument">> :
                    n \in DOMAIN desc.bindGroupLayoutsSerial}
      [] cat = "renderPipelines" ->
            {<<"devices", desc.deviceSerial, "receiver">>,
             <<"shaderModules", desc.moduleSerial, "argument">>}
            \cup (IF desc.layout = Auto THEN {}
                  ELSE {<<"pipelineLayouts", desc.layoutSerial, "argument">>})
      [] cat = "bindGroups" ->
            {<<"devices", desc.deviceSerial, "receiver">>,
             <<"bindGroupLayouts", desc.layoutSerial, "argument">>}
      [] cat = "textureViews" -> {<<"textures", desc.textureSerial, "receiver">>}
      [] cat = "commandBuffers" -> ConsumeCommands(desc).needs
      [] OTHER -> {<<"devices", desc.deviceSerial, "receiver">>}

\* The lookups run without a TypeError: the registry is there, the wrapper
\* is when a property of it is read, and its handle is when a method is
\* called on it.
LookupsOk(needs) ==
    \A need \in needs :
        /\ registry[need[1]].defined
        /\ need[3] # "wrapper" => Has(need[1], need[2])
        /\ need[3] = "receiver" => WebgpuObject(need[1], need[2]) # Undefined
        /\ need[3] # "unassigned"

\* The live handles the lookups read.
HandleReads(by, needs) ==
    {[by |-> by, of |-> <<need[1], need[2]>>,
      value |-> WebgpuObject(need[1], need[2])] :
        need \in {n \in needs : n[3] \in {"receiver", "argument"}}}

\* The construction runs without a TypeError.
ConstructOk(cat, serial) == LookupsOk(Needs(cat, Desc(cat, serial)))

\* The live handles the construction reads.
ReadsOf(cat, serial) == HandleReads(<<cat, serial>>, Needs(cat, Desc(cat, serial)))

\* The live handle a constructor assigns (none for an implicit layout and
\* for the categories whose handle comes from recreate).
Created(cat, serial) ==
    CASE cat \in AsyncCategories -> Undefined
      [] cat = "queues" -> <<"GPUQueue", Desc(cat, serial).deviceSerial, 0>>
      [] cat = "bindGroupLayouts" ->
            IF Desc(cat, serial).entries THEN Handle("GPUBindGroupLayout", serial)
            ELSE Undefined
      [] cat = "commandBuffers" -> Undefined
      [] OTHER -> Handle(cat, serial)

\* A texture descriptor: the recorded state, the initial data (a list of
\* subresources, or undefined) and the sample count.
NoInitialData == [defined |-> FALSE, subResources |-> <<>>]
InitialData(subResources) == [defined |-> TRUE, subResources |-> subResources]
TextureDesc(st, initialData, sampleCount) ==
    [deviceSerial |-> 1, state |-> st, initialData |-> initialData,
     sampleCount |-> sampleCount]

\* ReplayTexture.loadInitialData: nothing for a multisampled texture, else
\* one queue.writeTexture per subresource.
LoadInitialData(desc) ==
    IF desc.sampleCount # 1 THEN <<>>
    ELSE [n \in DOMAIN desc.initialData.subResources |->
            [op |-> "writeTexture", mipLevel |-> desc.initialData.subResources[n]]]

\* The calls the ReplayTexture constructor makes on the device, its queue
\* and the new texture: createTexture, then
\* if (desc.initialData !== undefined) loadInitialData(...)
\* else if (desc.state === 'destroyed') destroy().
TextureCalls(desc) ==
    <<[op |-> "createTexture", mipLevel |-> 0]>>
    \o (IF desc.initialData.defined THEN LoadInitialData(desc)
        ELSE IF desc.state = "destroyed" THEN <<[op |-> "destroy", mipLevel |-> 0]>>
        ELSE <<>>)

\* new Class(replay, desc) for every descriptor of the category.
NewObjects(cat) ==
    [id \in {<<cat, s>> : s \in Serials(cat)} |->
        [webgpuObject |-> Created(cat, id[2]),
         settled |-> cat \notin AsyncCategories,
         implicit |-> cat = "bindGroupLayouts" /\ ~Desc(cat, id[2]).entries,
         calls |-> IF cat = "textures" THEN TextureCalls(Desc(cat, id[2])) ELSE <<>>,
         commands |-> IF cat = "commandBuffers"
                      THEN ConsumeCommands(Desc(cat, id[2])).commands
                      ELSE <<>>]]

\* mapToReplayObjects.set(obj.webgpuObject, obj) in the order of the loop.
RECURSIVE BuildMap(_, _, _)
BuildMap(cat, s, map) ==
    IF s > Len(trace[cat].descs) THEN map
    ELSE BuildMap(cat, s + 1, MapSet(map, Created(cat, s), s))

\* RecreateWrites that also removes the serial it has resolved, as the
\* command resolvers do with theirs (delete c.args.pipelineSerial).
RecreateWritesTakingSerial(desc) ==
    LET vsModule == Has("shaderModules", desc.moduleSerial)
    IN [desc EXCEPT
          !.vertexModule =
              IF vsModule THEN <<"shaderModules", desc.moduleSerial>> ELSE Unset,
          !.layout =
              IF @ = Auto \/ ~vsModule \/ ~registry["pipelineLayouts"].defined THEN @
              ELSE IF Has("pipelineLayouts", desc.layoutSerial)
                   THEN <<"pipelineLayouts", desc.layoutSerial>>
                   ELSE Unset,
          !.layoutSerial = 0]

\* What ReplayRenderPipeline.recreate writes into its descriptor, which is
\* the trace's own (this.desc = desc): this.desc.vertex.module = vsModule,
\* and desc.layout = layout unless the layout is 'auto'.  The function
\* throws at vsModule.webgpuObject when the module is missing.
RecreateWrites(desc) ==
    LET vsModule == Has("shaderModules", desc.moduleSerial)
    IN [desc EXCEPT
          !.vertexModule =
              IF vsModule THEN <<"shaderModules", desc.moduleSerial>> ELSE Unset,
          !.layout =
              IF @ = Auto \/ ~vsModule \/ ~registry["pipelineLayouts"].defined THEN @
              ELSE IF Has("pipelineLayouts", desc.layoutSerial)
                   THEN <<"pipelineLayouts", desc.layoutSerial>>
                   ELSE Unset]

\* The trace after the recreate calls of a category have started.
TraceAfterRecreate(cat) ==
    IF cat = "renderPipelines"
    THEN [trace EXCEPT ![cat].descs = [p \in DOMAIN @ |-> RecreateWrites(@[p])]]
    ELSE trace

\* The first asynchronous step of recreate.
FirstStep(cat) ==
    CASE cat = "adapters" -> "requestAdapter"
      [] cat = "devices" -> "requestDevice"
      [] OTHER -> "createRenderPipelineAsync"

NoFrame == [recreatedObjects |-> {}, mapToReplayObjects |-> EmptyMap]

\* How the build compiles `[a, b] = value`: with the iteration protocol, or
\* down-levelled to value[0], value[1].
Destructurings == {"iterator", "indexed"}

\* recreateObjects / recreateObjectsAsync on a category the trace lacks:
\* `return {}`, which the caller destructures as an array.
RecreateAbsent(cat) ==
    /\ pc = At(cat)
    /\ ~trace[cat].present
    /\ \E build \in Destructurings :
         IF build = "iterator"
         THEN /\ pc' = Failed
              /\ UNCHANGED <<registry, handleMaps>>
         ELSE /\ pc' = After(cat)
              /\ registry' = [registry EXCEPT ![cat] = [defined |-> FALSE, serials |-> {}]]
              /\ handleMaps' = MapSet(handleMaps, MapField(cat),
                                      [defined |-> FALSE, entries |-> EmptyMap])
    /\ UNCHANGED <<trace, objects, frame, pending, reads, data, sessions, replayVars, moduleVars>>

\* [this.<category>, this.<field>] = recreateObjects(this, Class, descMap)
RecreateObjects(cat) ==
    /\ pc = At(cat)
    /\ cat \notin AsyncCategories
    /\ trace[cat].present
    /\ IF \A s \in Serials(cat) : ConstructOk(cat, s)
       THEN /\ objects' = NewObjects(cat) @@ objects
            /\ reads' = reads \cup UNION {ReadsOf(cat, s) : s \in Serials(cat)}
            /\ registry' = [registry EXCEPT
                               ![cat] = [defined |-> TRUE, serials |-> Serials(cat)]]
            /\ handleMaps' = MapSet(handleMaps, MapField(cat),
                                    [defined |-> TRUE,
                                     entries |-> BuildMap(cat, 1, EmptyMap)])
            /\ pc' = After(cat)
       ELSE /\ pc' = Failed
            /\ UNCHANGED <<objects, reads, registry, handleMaps>>
    /\ UNCHANGED <<trace, frame, pending, data, sessions, replayVars, moduleVars>>

\* recreateObjectsAsync up to `await Promise.all(recreatePromises)`: every
\* wrapper is constructed and its recreate started.
RecreateObjectsAsync(cat) ==
    /\ pc = At(cat)
    /\ cat \in AsyncCategories
    /\ trace[cat].present
    /\ IF \A s \in Serials(cat) : ConstructOk(cat, s)
       THEN /\ objects' = NewObjects(cat) @@ objects
            /\ reads' = reads \cup UNION {ReadsOf(cat, s) : s \in Serials(cat)}
            /\ pending' = pending \cup {<<cat, s, FirstStep(cat)>> : s \in Serials(cat)}
            /\ frame' = [recreatedObjects |-> Serials(cat),
                         mapToReplayObjects |-> BuildMap(cat, 1, EmptyMap)]
            /\ pc' = Awaiting(cat)
       ELSE /\ pc' = Failed
            /\ UNCHANGED <<objects, reads, pending, frame>>
    /\ trace' = TraceAfterRecreate(cat)
    /\ UNCHANGED <<registry, handleMaps, data, sessions, replayVars, moduleVars>>

\* The live handle an asynchronous step resolves with.
Resolved(cat, serial) ==
    CASE cat = "adapters" -> Handle("GPUAdapter", serial)
      [] cat = "devices" -> Handle("GPUDevice", serial)
      [] OTHER -> Handle("GPURenderPipeline", serial)

\* An asynchronous step of a recreate completes: the host hands over the
\* adapter, the adapter info, the device or the pipeline.
Resolve(cat, serial, step) ==
    /\ <<cat, serial, step>> \in pending
    /\ IF step = "requestAdapter"
       THEN /\ objects' = [objects EXCEPT
                              ![<<cat, serial>>].webgpuObject = Resolved(cat, serial)]
            /\ pending' = (pending \ {<<cat, serial, step>>})
                              \cup {<<cat, serial, "requestAdapterInfo">>}
       ELSE IF step = "requestAdapterInfo"
       THEN /\ objects' = [objects EXCEPT ![<<cat, serial>>].settled = TRUE]
            /\ pending' = pending \ {<<cat, serial, step>>}
       ELSE /\ objects' = [objects EXCEPT
                              ![<<cat, serial>>].webgpuObject = Resolved(cat, serial),
                              ![<<cat, serial>>].settled = TRUE]
            /\ pending' = pending \ {<<cat, serial, step>>}
    /\ UNCHANGED <<trace, pc, registry, handleMaps, frame, reads, data, sessions, replayVars, moduleVars>>

\* Promise.all without the join: resolved once some recreate has.
AnySettled(cat) ==
    \/ frame.recreatedObjects = {}
    \/ \E s \in frame.recreatedObjects : objects[<<cat, s>>].settled

\* await Promise.all(recreatePromises)
AllSettled(cat) ==
    \A s \in frame.recreatedObjects : objects[<<cat, s>>].settled

\* recreateObjectsAsync resumes and returns; load assigns the two fields.
Resume(cat) ==
    /\ pc = Awaiting(cat)
    /\ AllSettled(cat)
    /\ registry' = [registry EXCEPT
                       ![cat] = [defined |-> TRUE, serials |-> frame.recreatedObjects]]
    /\ handleMaps' = MapSet(handleMaps, MapField(cat),
                            [defined |-> TRUE, entries |-> frame.mapToReplayObjects])
    /\ frame' = NoFrame
    /\ pc' = After(cat)
    /\ UNCHANGED <<trace, objects, pending, reads, data, sessions, replayVars, moduleVars>>

\* dataBuf[i] = badArray[i] on a Uint8Array: the number modulo 256.
ToBytes(badArray) == [i \in DOMAIN badArray |-> badArray[i] % 256]

\* this.data = {}; for (const dataSerial in trace.data) ...
CopyData ==
    /\ pc = At("data")
    /\ data' = [s \in DOMAIN trace["data"] |-> ToBytes(trace["data"][s])]
    /\ pc' = At("adapters")
    /\ UNCHANGED <<trace, objects, registry, handleMaps, frame, pending, reads,
                   sessions, replayVars, moduleVars>>

\* this.commandBuffers[serial]
NoBuffer == [commands |-> <<>>, undefined |-> TRUE]
ResolvedBuffer(serial) ==
    IF Has("commandBuffers", serial)
    THEN CommandBuffer(objects[<<"commandBuffers", serial>>].commands)
    ELSE NoBuffer

\* The registry lookups of the cases of trace.commands.map(...).
QueueNeeds(c) ==
    CASE c.name = "queueSubmit" ->
            {<<"queues", c.queueSerial, "wrapper">>}
            \cup {<<"commandBuffers", c.args.commandBufferSerials[n], "wrapper">> :
                    n \in DOMAIN c.args.commandBufferSerials}
      [] c.name = "queueWriteBuffer" ->
            {<<"queues", c.queueSerial, "wrapper">>,
             <<"buffers", c.args.bufferSerial, "wrapper">>}
      [] c.name = "queueWriteTexture" ->
            {<<"queues", c.queueSerial, "wrapper">>,
             <<"textures", c.args.textureSerial, "argument">>}
      [] c.name \in {"present", "textureDestroy"} ->
            {<<"textures", c.args.textureSerial, "wrapper">>}
      [] c.name \in {"bufferUpdateData", "bufferUnmap"} ->
            {<<"buffers", c.args.bufferSerial, "wrapper">>}
      [] OTHER -> {}

\* The cases of trace.commands.map(...): the resolved command of a trace
\* command, the placeholder 'bad-command' for an unrecognized kind.
ResolveQueueCommand(c) ==
    CASE c.name = "queueSubmit" ->
            ResolvedCommand(c.name,
                [n \in DOMAIN c.args.commandBufferSerials |->
                    ResolvedBuffer(c.args.commandBufferSerials[n])],
                WrapperOf("queues", c.queueSerial), NoArgs)
      [] c.name = "queueWriteBuffer" ->
            ResolvedCommand(c.name, <<>>, WrapperOf("queues", c.queueSerial),
                [buffer |-> WrapperOf("buffers", c.args.bufferSerial),
                 bufferOffset |-> c.args.bufferOffset,
                 data |-> c.args.data])
      [] c.name = "queueWriteTexture" ->
            ResolvedCommand(c.name, <<>>, WrapperOf("queues", c.queueSerial), NoArgs)
      [] c.name = "present" ->
            ResolvedCommand(c.name, <<>>, NoWrapper,
                [texture |-> WrapperOf("textures", c.args.textureSerial)])
      [] c.name \in {"textureDestroy", "bufferUpdateData", "bufferUnmap"} ->
            ResolvedCommand(c.name, <<>>, NoWrapper, NoArgs)
      [] OTHER -> ResolvedCommand("bad-command", <<>>, NoWrapper, NoArgs)

\* this.commands = trace.commands.map(command => ...): the last statement
\* of load.
ResolveCommands ==
    /\ pc = At("commands")
    /\ LET needs == UNION {QueueNeeds(trace["commands"][n]) :
                            n \in DOMAIN trace["commands"]}
       IN IF LookupsOk(needs)
          THEN /\ commands' = [n \in DOMAIN trace["commands"] |->
                                  ResolveQueueCommand(trace["commands"][n])]
               /\ reads' = reads \cup HandleReads(<<"commands", 0>>, needs)
               /\ pc' = Done
          ELSE /\ pc' = Failed
               /\ UNCHANGED <<commands, reads>>
    /\ UNCHANGED <<trace, objects, registry, handleMaps, frame, pending, data,
                   sessions, state, call, ops, status, unhandled, emitted, history,
                   callerPath, moduleVars>>

\* The bind-group layouts load initializes from their pipeline.
ImplicitLayouts ==
    IF registry["bindGroupLayouts"].defined
    THEN {s \in registry["bindGroupLayouts"].serials :
            objects[<<"bindGroupLayouts", s>>].implicit}
    ELSE {}

\* initializeFromImplicitDesc with the first group's layout for every layout.
ImplicitHandleOfFirstGroup(serial) ==
    GetBindGroupLayout(
        WebgpuObject("renderPipelines",
                     Desc("bindGroupLayouts", serial).renderPipelineSerial),
        0)

\* ReplayBindGroupLayout.initializeFromImplicitDesc
ImplicitHandle(serial) ==
    GetBindGroupLayout(
        WebgpuObject("renderPipelines",
                     Desc("bindGroupLayouts", serial).renderPipelineSerial),
        Desc("bindGroupLayouts", serial).groupIndex)

\* for (const i in this.bindGroupLayouts) if (implicit) initializeFromImplicitDesc()
InitializeImplicit ==
    /\ pc = At("implicit")
    /\ IF \A s \in ImplicitLayouts :
            LET p == Desc("bindGroupLayouts", s).renderPipelineSerial
            IN Has("renderPipelines", p) /\ WebgpuObject("renderPipelines", p) # Undefined
       THEN /\ objects' =
                 [id \in DOMAIN objects |->
                    IF id[1] = "bindGroupLayouts" /\ id[2] \in ImplicitLayouts
                    THEN [objects[id] EXCEPT !.webgpuObject = ImplicitHandle(id[2])]
                    ELSE objects[id]]
            /\ reads' = reads \cup
                 {[by |-> <<"bindGroupLayouts", s>>,
                   of |-> <<"renderPipelines",
                            Desc("bindGroupLayouts", s).renderPipelineSerial>>,
                   value |-> WebgpuObject("renderPipelines",
                                Desc("bindGroupLayouts", s).renderPipelineSerial)] :
                    s \in ImplicitLayouts}
            /\ pc' = At("buffers")
       ELSE /\ pc' = Failed
            /\ UNCHANGED <<objects, reads>>
    /\ UNCHANGED <<trace, registry, handleMaps, frame, pending, data, sessions, replayVars, moduleVars>>

\* The object fields of a Replay before load: every registry {} and every
\* declared handle map a new Map().
\* let requestUnwrappedAdapter: declared without a value.
NoFunction == 0

NoRegistry == [c \in CategorySet |-> [defined |-> TRUE, serials |-> {}]]
NoHandleMaps ==
    [f \in {DeclaredMapField(c) : c \in CategorySet} |->
        [defined |-> TRUE, entries |-> EmptyMap]]
NoObjects ==
    /\ objects = EmptyMap
    /\ registry = NoRegistry
    /\ handleMaps = NoHandleMaps
    /\ frame = NoFrame
    /\ pending = {}
    /\ reads = {}
    /\ sessions = <<>>
    /\ requestUnwrappedAdapter = NoFunction
    /\ loads = <<>>

\* loadReplay(trace, ...) once more on the Trace value a completed load has
\* run on: a new Replay, whose load starts from the trace as the first load
\* left it.  The first session is kept for comparison.
Reload ==
    /\ pc = Done
    /\ sessions = <<>>
    /\ sessions' = <<[registry |-> registry, objects |-> objects,
                      commands |-> commands, data |-> data]>>
    /\ pc' = At("data")
    /\ objects' = EmptyMap
    /\ registry' = NoRegistry
    /\ handleMaps' = NoHandleMaps
    /\ frame' = NoFrame
    /\ pending' = {}
    /\ reads' = {}
    /\ data' = EmptyMap
    /\ commands' = <<>>
    /\ UNCHANGED <<trace, state, call, ops, status, unhandled, emitted, history,
                   callerPath, moduleVars>>

\* A trace: its objects by category, its data blobs and its commands.
Trace(objs, blobs, cmds) == [data |-> blobs, commands |-> cmds] @@ objs

\* A loaded session, the objects of its trace left out: the commands of
\* the enumerated trees hold the wrappers they refer to.
LoadedEmpty ==
    /\ trace = Trace([c \in CategorySet |-> Present(<<>>)], <<>>, <<>>)
    /\ pc = Done
    /\ NoObjects
    /\ data = TheData

----------------------------------------------------------------------------
(* The session as a state machine. *)

NoCall == [op |-> "none", path |-> <<>>]

\* The calls made on the session so far.
CallsMade == IF call = NoCall THEN 0 ELSE Len(history) + 1

\* A new call on the session: the one before it joins the history.
Called(op, path) ==
    /\ call' = [op |-> op, path |-> path]
    /\ history' =
         IF call = NoCall THEN history
         ELSE Append(history, [call |-> call, ops |-> ops, status |-> status,
                               state |-> state, emitted |-> emitted])

Init ==
    /\ commands \in Trees
    /\ state = UndefinedState
    /\ call = NoCall
    /\ callerPath = <<>>
    /\ ops = <<>>
    /\ status = "ok"
    /\ unhandled = FALSE
    /\ emitted = <<>>
    /\ history = <<>>
    /\ LoadedEmpty

\* replayTo without path = path.slice(): the driver shifts the components
\* off the caller's array.
CallerPathAfterInPlace(path, worked) ==
    LET heap == [argument |-> path]
    IN [heap EXCEPT !["argument"] = worked].argument

\* path = path.slice(): the driver works on a copy of the argument; worked
\* is what its shifts leave of the array it works on.
CallerPathAfter(path, worked) ==
    LET heap == [argument |-> path, copy |-> path]
    IN [heap EXCEPT !["copy"] = worked].argument

\* A replayTo whose failure leaves the tree cut at the failing command.
ReplayToCutting(path) ==
    LET r == ReplayToResult(commands, path)
    IN /\ Called("replayTo", path)
       /\ callerPath' = CallerPathAfter(path, r.path)
       /\ state' = r.state
       /\ ops' = r.ops
       /\ status' = IF r.threw THEN "threw" ELSE "ok"
       /\ unhandled' = r.unhandled
       /\ emitted' = <<>>
       /\ commands' = IF r.threw THEN SubSeq(commands, 1, 1) ELSE commands
       /\ UNCHANGED <<loadVars, moduleVars>>

\* await replay.replayTo(path)
ReplayTo(path) ==
    LET r == ReplayToResult(commands, path)
    IN /\ Called("replayTo", path)
       /\ callerPath' = CallerPathAfter(path, r.path)
       /\ state' = r.state
       /\ ops' = r.ops
       /\ status' = IF r.threw THEN "threw" ELSE "ok"
       /\ unhandled' = r.unhandled
       /\ emitted' = <<>>
       /\ UNCHANGED <<commands, loadVars, moduleVars>>

\* replay.execute(replay.commands[i])
ExecuteCommand(i) ==
    LET r == Execute(commands[i + 1], <<i>>, Start(state))
    IN /\ Called("execute", <<i>>)
       /\ state' = r.state
       /\ ops' = r.ops
       /\ status' = IF r.threw THEN "threw" ELSE "ok"
       /\ unhandled' = r.unhandled
       /\ emitted' = <<>>
       /\ UNCHANGED <<commands, callerPath, loadVars, moduleVars>>

\* An enumeration that goes on from where an unfinished one stopped.
EnumerateResuming ==
    LET e == IterateCommands(commands)
    IN /\ Called("iterateCommands", <<>>)
       /\ emitted' = IF call.op = "iterateSome"
                      THEN SubSeq(e.items, Len(emitted) + 1, Len(e.items))
                      ELSE e.items
       /\ unhandled' = e.unhandled
       /\ ops' = <<>>
       /\ status' = "ok"
       /\ UNCHANGED <<commands, state, callerPath, loadVars, moduleVars>>

\* [...replay.iterateCommands()]
Enumerate ==
    LET e == IterateCommands(commands)
    IN /\ Called("iterateCommands", <<>>)
       /\ emitted' = e.items
       /\ unhandled' = e.unhandled
       /\ ops' = <<>>
       /\ status' = "ok"
       /\ UNCHANGED <<commands, state, callerPath, loadVars, moduleVars>>

\* for (const item of replay.iterateCommands()) with a break after n items:
\* the generator object is dropped unfinished.
EnumerateSome(n) ==
    LET e == IterateCommands(commands)
    IN /\ n < Len(e.items)
       /\ Called("iterateSome", <<n>>)
       /\ emitted' = SubSeq(e.items, 1, n)
       /\ unhandled' = FALSE
       /\ ops' = <<>>
       /\ status' = "ok"
       /\ UNCHANGED <<commands, state, callerPath, loadVars, moduleVars>>

\* One call on a freshly loaded session.
Next ==
    \/ call = NoCall /\ \E path \in Paths(commands) : ReplayTo(path)
    \/ call = NoCall /\ \E i \in 0..(Len(commands) - 1) : ExecuteCommand(i)
    \/ call = NoCall /\ Enumerate

Spec == Init /\ [][Next]_vars

----------------------------------------------------------------------------
(* Full trees: every list has its greatest length (MaxCmds commands, each  *)
(* a write or a submission of MaxCBs buffers of MaxCBCmds commands, each   *)
(* pass with MaxRPCmds children), so that every target short of the last   *)
(* has a command after it at its level.                                    *)

FullPasses ==
    {[commands |-> <<BeginMarker>> \o body \o <<EndMarker>>] :
        body \in [1..MaxRPCmds -> PassChildren]}

FullBodies(rp) ==
    [1..MaxCBCmds -> {EncoderCommand("copyBufferToTexture"), RenderPassCommand(rp)}]

FullTrees ==
    UNION {[1..MaxCmds ->
              {QueueCommand("queueWriteBuffer", <<>>),
               QueueCommand("queueSubmit", [j \in 1..MaxCBs |-> CommandBuffer(body)])}] :
           body \in UNION {FullBodies(rp) : rp \in FullPasses}}

InitFull ==
    /\ commands \in FullTrees
    /\ state = UndefinedState
    /\ call = NoCall
    /\ callerPath = <<>>
    /\ ops = <<>>
    /\ status = "ok"
    /\ unhandled = FALSE
    /\ emitted = <<>>
    /\ history = <<>>
    /\ LoadedEmpty

SpecFull == InitFull /\ [][Next]_vars

----------------------------------------------------------------------------
(* State traces: one submission of one command buffer holding one render   *)
(* pass whose commands set every part of the pass state.                   *)

\* A second render target, of another size.
WideArgs ==
    [colorAttachments |->
        <<[viewState |-> "view2", resolveTargetState |-> "resolve2",
           width |-> 8, height |-> 2]>>,
     depthStencilAttachment |-> "depthView2"]

Viewports ==
    {[x |-> 1, y |-> 1, width |-> 2, height |-> 2, minDepth |-> 0, maxDepth |-> 1],
     [x |-> 0, y |-> 0, width |-> 1, height |-> 3, minDepth |-> 0, maxDepth |-> 1]}

StateChildren ==
    {PassCommand("setPipeline", [pipeline |-> p]) : p \in {"pipeline1", "pipeline2"}}
    \cup {PassCommand("setBindGroup", [index |-> x[1], bindGroup |-> x[2]]) :
            x \in {<<0, "bindGroup1">>, <<0, "bindGroup2">>, <<1, "bindGroup1">>}}
    \cup {PassCommand("setVertexBuffer",
                      [slot |-> x[1], buffer |-> x[2], offset |-> x[3], size |-> 16]) :
            x \in {<<0, "buffer1", 0>>, <<0, "buffer2", 4>>, <<1, "buffer1", 8>>}}
    \cup {PassCommand("setIndexBuffer",
                      [buffer |-> x[1], indexFormat |-> "uint16", offset |-> x[2],
                       size |-> 8]) :
            x \in {<<"buffer1", 0>>, <<"buffer2", 4>>}}
    \cup {PassCommand("setViewport", v) : v \in Viewports}
    \cup {PassCommand("draw", NoArgs)}

StatePasses ==
    {[commands |-> <<PassCommand("beginRenderPass", desc)>> \o body \o <<EndMarker>>] :
        desc \in {BeginArgs, WideArgs},
        body \in SeqsUpTo(StateChildren, MaxStateCmds)}

StateTrees ==
    {<<QueueCommand("queueSubmit", <<CommandBuffer(<<RenderPassCommand(rp)>>)>>)>> :
        rp \in StatePasses}

InitPass ==
    /\ commands \in StateTrees
    /\ state = UndefinedState
    /\ call = NoCall
    /\ callerPath = <<>>
    /\ ops = <<>>
    /\ status = "ok"
    /\ unhandled = FALSE
    /\ emitted = <<>>
    /\ history = <<>>
    /\ LoadedEmpty

SpecPass == InitPass /\ [][Next]_vars

----------------------------------------------------------------------------
(* Kind traces: trees that hold, at each level, a command of a kind the    *)
(* resolver keeps without recognizing it: the queue-level placeholder      *)
(* 'bad-command', an encoder command and a pass command that reach the     *)
(* default branch of consumeCommands and are pushed as they are.           *)

BadCommand == QueueCommand("bad-command", <<>>)

KindPasses ==
    {[commands |-> <<BeginMarker>> \o body \o <<EndMarker>>] :
        body \in SeqsUpTo({PassCommand("draw", NoArgs),
                           PassCommand("setScissorRect", NoArgs)}, MaxRPCmds)}

KindBodies(rp) ==
    SeqsUpTo({EncoderCommand("copyBufferToBuffer"), RenderPassCommand(rp)},
             MaxCBCmds)

KindTrees ==
    UNION {SeqsUpTo({BadCommand,
                     QueueCommand("queueSubmit", <<CommandBuffer(body)>>)},
                    MaxCmds) \ {<<>>} :
           body \in UNION {KindBodies(rp) : rp \in KindPasses}}

InitKinds ==
    /\ commands \in KindTrees
    /\ state = UndefinedState
    /\ call = NoCall
    /\ callerPath = <<>>
    /\ ops = <<>>
    /\ status = "ok"
    /\ unhandled = FALSE
    /\ emitted = <<>>
    /\ history = <<>>
    /\ LoadedEmpty

SpecKinds == InitKinds /\ [][Next]_vars

----------------------------------------------------------------------------
(* Sessions: up to MaxCalls calls in a row on one loaded session, replayTo *)
(* with the paths the step list sends (an emitted path, or endPath()).     *)

SessionPass == [commands |-> <<BeginMarker, EndMarker>>]

SessionCommands ==
    {QueueCommand("queueWriteBuffer", <<>>),
     QueueCommand("textureDestroy", <<>>),
     QueueCommand("present", <<>>),
     QueueCommand("queueSubmit",
                  <<CommandBuffer(<<RenderPassCommand(SessionPass)>>)>>)}

SessionTrees == SeqsUpTo(SessionCommands, MaxCmds) \ {<<>>}

SessionPaths(cmds) ==
    LET items == IterateCommands(cmds).items
    IN {items[n].path : n \in DOMAIN items} \cup {EndPath(cmds)}

InitSession ==
    /\ commands \in SessionTrees
    /\ state = UndefinedState
    /\ call = NoCall
    /\ callerPath = <<>>
    /\ ops = <<>>
    /\ status = "ok"
    /\ unhandled = FALSE
    /\ emitted = <<>>
    /\ history = <<>>
    /\ LoadedEmpty

NextSession ==
    \/ CallsMade < MaxCalls /\ \E path \in SessionPaths(commands) : ReplayTo(path)
    \/ CallsMade < MaxCalls /\ \E i \in 0..(Len(commands) - 1) : ExecuteCommand(i)
    \/ CallsMade < MaxCalls /\ Enumerate

SpecSession == InitSession /\ [][NextSession]_vars

----------------------------------------------------------------------------
(* Enumerating sessions: up to MaxEnumerations enumerations of one loaded  *)
(* session, each run to its end or dropped after some items.               *)

MaxItems(cmds) == Len(IterateCommands(cmds).items)

NextEnumerating ==
    \/ CallsMade < MaxEnumerations /\ Enumerate
    \/ CallsMade < MaxEnumerations
          /\ \E n \in 0..(MaxItems(commands) - 1) : EnumerateSome(n)

SpecEnumerating == InitSession /\ [][NextEnumerating]_vars

----------------------------------------------------------------------------
(* Presenting sessions: trees whose presents show one of two textures and  *)
(* whose submissions hold a pass followed by a debug group.  The pass has  *)
(* its end marker, or is the pass consumeCommands builds from a stream     *)
(* that runs out before an endPass.                                        *)

Texture(serial) == Wrapper("textures", serial, <<"textures", serial, 0>>)

PresentCommand(serial) ==
    ResolvedCommand("present", <<>>, NoWrapper, [texture |-> Texture(serial)])

UnterminatedPass ==
    [commands |->
        <<BeginMarker, PassCommand("setPipeline", [pipeline |-> "pipeline1"])>>]

PresentingSubmit(rp) ==
    QueueCommand("queueSubmit",
                 <<CommandBuffer(<<RenderPassCommand(rp),
                                   EncoderCommand("pushDebugGroup")>>)>>)

PresentingCommands ==
    {PresentCommand(1), PresentCommand(2),
     QueueCommand("queueWriteBuffer", <<>>),
     PresentingSubmit(SessionPass), PresentingSubmit(UnterminatedPass)}

PresentingTrees == SeqsUpTo(PresentingCommands, MaxCmds) \ {<<>>}

InitPresenting ==
    /\ commands \in PresentingTrees
    /\ state = UndefinedState
    /\ call = NoCall
    /\ callerPath = <<>>
    /\ ops = <<>>
    /\ status = "ok"
    /\ unhandled = FALSE
    /\ emitted = <<>>
    /\ history = <<>>
    /\ LoadedEmpty

NextPresenting ==
    CallsMade < MaxCalls /\ \E path \in SessionPaths(commands) : ReplayTo(path)

SpecPresenting == InitPresenting /\ [][NextPresenting]_vars

----------------------------------------------------------------------------
(* Loading: Replay.load on a trace of nA adapters with a device and a      *)
(* queue each, one shader module, one explicit bind-group layout, nP       *)
(* render pipelines of which those in autos derive their layout (each      *)
(* with an implicit bind-group layout at group index p), a pipeline        *)
(* layout for the others, nB buffers and a bind group per layout.  A       *)
(* category without descriptors is an empty mapping or absent.             *)

BindGroupLayoutDescs(autos) ==
    LET RECURSIVE From(_)
        From(p) ==
            IF p > MaxPipelines THEN <<>>
            ELSE (IF p \in autos
                  THEN <<[deviceSerial |-> 1, entries |-> FALSE,
                          renderPipelineSerial |-> p, groupIndex |-> p]>>
                  ELSE <<>>) \o From(p + 1)
    IN <<[deviceSerial |-> 1, entries |-> TRUE,
          renderPipelineSerial |-> 0, groupIndex |-> 0]>> \o From(1)

TraceObjects(nA, nP, autos, nL, nB, absent) ==
    LET layouts == BindGroupLayoutDescs(autos)
        all ==
          [adapters |-> [s \in 1..nA |-> [powerPreference |-> "none"]],
           devices |-> [s \in 1..nA |-> [adapterSerial |-> s]],
           queues |-> [s \in 1..nA |-> [deviceSerial |-> s]],
           bindGroupLayouts |-> layouts,
           pipelineLayouts |->
              [s \in 1..nL |-> [deviceSerial |-> 1, bindGroupLayoutsSerial |-> <<1>>]],
           shaderModules |-> <<[deviceSerial |-> 1]>>,
           renderPipelines |->
              [p \in 1..nP |->
                 [deviceSerial |-> 1, moduleSerial |-> 1, vertexModule |-> Unset,
                  layout |-> IF p \in autos THEN Auto ELSE Unset,
                  layoutSerial |-> IF p \in autos THEN 0 ELSE 1]],
           buffers |-> [s \in 1..nB |-> [deviceSerial |-> 1]],
           textures |-> <<TextureDesc("available", NoInitialData, 1)>>,
           textureViews |-> <<[textureSerial |-> 1]>>,
           querySets |-> <<[deviceSerial |-> 1]>>,
           commandBuffers |-> <<>>,
           bindGroups |->
              [s \in 1..Len(layouts) |-> [deviceSerial |-> 1, layoutSerial |-> s]]]
    IN Trace([c \in CategorySet |-> IF c \in absent THEN Absent ELSE Present(all[c])],
             <<>>, <<>>)

LoadTraces ==
    {TraceObjects(nA, nP, autos, nL, nB, absent) :
        nA \in 1..MaxAdapters,
        nP \in 0..MaxPipelines,
        autos \in SUBSET (1..MaxPipelines),
        nL \in 0..1,
        nB \in 0..1,
        absent \in {{}} \cup {{c} : c \in CategorySet}}

\* Every pipeline named by a layout exists, every explicit-layout pipeline
\* has its pipeline layout, and only an unused category (one the trace has
\* no descriptor for and nothing refers to) is absent.
WellFormed(t) ==
    /\ \A s \in DOMAIN t["bindGroupLayouts"].descs :
          LET d == t["bindGroupLayouts"].descs[s]
          IN ~d.entries => d.renderPipelineSerial \in DOMAIN t["renderPipelines"].descs
    /\ \A p \in DOMAIN t["renderPipelines"].descs :
          LET d == t["renderPipelines"].descs[p]
          IN d.layout # Auto => d.layoutSerial \in DOMAIN t["pipelineLayouts"].descs
    /\ \A c \in CategorySet :
          ~t[c].present => c \in {"renderPipelines", "pipelineLayouts", "buffers"}

\* No call is made on the session while it loads.
NoReplay ==
    /\ commands = <<>>
    /\ state = UndefinedState
    /\ call = NoCall
    /\ callerPath = <<>>
    /\ ops = <<>>
    /\ status = "ok"
    /\ unhandled = FALSE
    /\ emitted = <<>>
    /\ history = <<>>

InitLoad ==
    /\ trace \in {t \in LoadTraces : WellFormed(t)}
    /\ pc = At("data")
    /\ NoObjects
    /\ data = EmptyMap
    /\ NoReplay

NextLoad ==
    \/ CopyData
    \/ \E cat \in CategorySet : RecreateAbsent(cat)
    \/ \E cat \in CategorySet : RecreateObjects(cat)
    \/ \E cat \in CategorySet : RecreateObjectsAsync(cat)
    \/ \E step \in pending : Resolve(step[1], step[2], step[3])
    \/ \E cat \in CategorySet : Resume(cat)
    \/ InitializeImplicit
    \/ ResolveCommands

SpecLoad == InitLoad /\ [][NextLoad]_vars

----------------------------------------------------------------------------
(* Resolution: Replay.load on a trace of one adapter, device and queue,    *)
(* a pipeline with an explicit layout and one with a derived layout, a     *)
(* buffer, a texture and its view, and one command buffer whose recorded   *)
(* stream is any sequence of up to MaxStream commands, submitted by the    *)
(* trace's first command.                                                  *)

TraceBeginArgs ==
    [colorAttachments |->
        <<[viewSerial |-> 1, resolveTargetSerial |-> 0, width |-> 4, height |-> 4]>>,
     depthStencilAttachment |-> 0,
     timestampWrites |-> <<>>,
     occlusionQuerySetSerial |-> 0]

\* The commands of a stream.  pushDebugGroup is recognized in a command
\* buffer and in a pass, setPipeline in a pass only, setScissorRect in
\* neither.
StreamCommands ==
    {TraceCommand("beginRenderPass", TraceBeginArgs),
     TraceCommand("endPass", NoArgs),
     TraceCommand("setPipeline", [pipelineSerial |-> 1]),
     TraceCommand("pushDebugGroup", NoArgs),
     TraceCommand("setScissorRect", NoArgs)}

Streams == SeqsUpTo(StreamCommands, MaxStream)

\* What follows the submission in the trace's command list: nothing, or a
\* command of a kind load has no case for.
QueueTails ==
    {<<>>, <<TraceQueueCommand("queueCopyExternalImageToTexture", 1, NoArgs)>>}

ResolveObjects == TraceObjects(1, 2, {2}, 1, 1, {})

ResolveTrace(stream, tail) ==
    [ResolveObjects EXCEPT
        !["commandBuffers"] = Present(<<[commands |-> stream]>>),
        !["commands"] =
            <<TraceQueueCommand("queueSubmit", 1, [commandBufferSerials |-> <<1>>])>>
            \o tail]

ResolveTraces == {ResolveTrace(stream, tail) : stream \in Streams, tail \in QueueTails}

InitResolve ==
    /\ trace \in ResolveTraces
    /\ pc = At("data")
    /\ NoObjects
    /\ data = EmptyMap
    /\ NoReplay

\* load on a trace that has every category.
NextResolve ==
    \/ CopyData
    \/ \E cat \in CategorySet : RecreateObjects(cat)
    \/ \E cat \in CategorySet : RecreateObjectsAsync(cat)
    \/ \E step \in pending : Resolve(step[1], step[2], step[3])
    \/ \E cat \in CategorySet : Resume(cat)
    \/ InitializeImplicit
    \/ ResolveCommands

SpecResolve == InitResolve /\ [][NextResolve]_vars

----------------------------------------------------------------------------
(* Concurrent loads: up to MaxLoads calls of loadReplay, the k-th with     *)
(* adapter-acquisition function k and a trace of up to MaxAdapters         *)
(* adapters.  A call runs without interruption up to the first await of    *)
(* load, which is the Promise.all over the adapters' recreate calls; each  *)
(* recreate has by then called requestUnwrappedAdapter(desc).  The host    *)
(* answers the requests of all sessions in any order.                      *)

MaxLoads == 2

\* ReplayAdapter.recreate up to its first await: the function the
\* module-level variable holds at that moment is called.
AdapterRecreate(current) ==
    [through |-> current, webgpuObject |-> Undefined, adapterInfo |-> FALSE]

\* loadReplay that starts the load before it stores its function.
LoadReplayStoringLate(fn, nA) ==
    /\ Len(loads) < MaxLoads
    /\ fn = Len(loads) + 1
    /\ requestUnwrappedAdapter' = fn
    /\ loads' = Append(loads,
                       [fn |-> fn, awaiting |-> TRUE,
                        adapters |-> [a \in 1..nA |->
                                        AdapterRecreate(requestUnwrappedAdapter)]])
    /\ UNCHANGED <<replayVars, loadVars>>

\* loadReplay(trace, requestUnwrappedAdapterFn) up to the first await:
\* requestUnwrappedAdapter = requestUnwrappedAdapterFn; new Replay();
\* replay.load(trace) copies the data and starts a recreate per adapter.
LoadReplay(fn, nA) ==
    /\ Len(loads) < MaxLoads
    /\ fn = Len(loads) + 1
    /\ requestUnwrappedAdapter' = fn
    /\ loads' = Append(loads,
                       [fn |-> fn, awaiting |-> TRUE,
                        adapters |-> [a \in 1..nA |->
                                        AdapterRecreate(requestUnwrappedAdapter')]])
    /\ UNCHANGED <<replayVars, loadVars>>

\* this.webgpuObject = await requestUnwrappedAdapter(desc): the function
\* that was called hands over its adapter.
AdapterAcquired(s, a) ==
    /\ loads[s].adapters[a].webgpuObject = Undefined
    /\ loads' = [loads EXCEPT ![s].adapters[a].webgpuObject =
                     <<"GPUAdapter", loads[s].adapters[a].through, a>>]
    /\ UNCHANGED <<requestUnwrappedAdapter, replayVars, loadVars>>

\* this.adapterInfo = await this.webgpuObject.requestAdapterInfo()
AdapterInfoReceived(s, a) ==
    /\ loads[s].adapters[a].webgpuObject # Undefined
    /\ ~loads[s].adapters[a].adapterInfo
    /\ loads' = [loads EXCEPT ![s].adapters[a].adapterInfo = TRUE]
    /\ UNCHANGED <<requestUnwrappedAdapter, replayVars, loadVars>>

\* await Promise.all(recreatePromises) is over: load goes on with the
\* devices and what follows, none of which reads the variable.
LoadContinues(s) ==
    /\ loads[s].awaiting
    /\ \A a \in DOMAIN loads[s].adapters : loads[s].adapters[a].adapterInfo
    /\ loads' = [loads EXCEPT ![s].awaiting = FALSE]
    /\ UNCHANGED <<requestUnwrappedAdapter, replayVars, loadVars>>

InitLoads ==
    /\ trace = Trace([c \in CategorySet |-> Present(<<>>)], <<>>, <<>>)
    /\ pc = At("data")
    /\ NoObjects
    /\ data = EmptyMap
    /\ NoReplay

NextLoads ==
    \/ \E fn \in 1..MaxLoads, nA \in 1..MaxAdapters : LoadReplay(fn, nA)
    \/ \E s \in DOMAIN loads : \E a \in DOMAIN loads[s].adapters : AdapterAcquired(s, a)
    \/ \E s \in DOMAIN loads : \E a \in DOMAIN loads[s].adapters : AdapterInfoReceived(s, a)
    \/ \E s \in DOMAIN loads : LoadContinues(s)

SpecLoads == InitLoads /\ [][NextLoads]_vars

----------------------------------------------------------------------------
(* Copies: the load of a trace of two textures and a buffer whose command  *)
(* buffer records up to MaxStream copies and debug markers.                *)

CopyCommands ==
    {TraceCommand("copyBufferToTexture", [bufferSerial |-> 1, textureSerial |-> t]) :
        t \in 1..2}
    \cup {TraceCommand("copyTextureToTexture", [sourceSerial |-> t, textureSerial |-> 3 - t]) :
        t \in 1..2}
    \cup {TraceCommand("pushDebugGroup", NoArgs)}

CopyTraces ==
    {[ResolveTrace(stream, <<>>) EXCEPT
         !["textures"] = Present(<<TextureDesc("available", NoInitialData, 1),
                                   TextureDesc("available", NoInitialData, 1)>>)] :
        stream \in SeqsUpTo(CopyCommands, MaxStream)}

InitCopies ==
    /\ trace \in CopyTraces
    /\ pc = At("data")
    /\ NoObjects
    /\ data = EmptyMap
    /\ NoReplay

SpecCopies == InitCopies /\ [][NextResolve]_vars

----------------------------------------------------------------------------
(* Query sets: the load of a trace whose command buffer records up to      *)
(* MaxStream passes, each begun with up to MaxTimestampWrites timestamp    *)
(* writes and with or without an occlusion query set.                      *)

MaxTimestampWrites == 2

QueryBegins ==
    {TraceCommand("beginRenderPass",
        [TraceBeginArgs EXCEPT
            !.timestampWrites = [w \in 1..n |-> 1],
            !.occlusionQuerySetSerial = o]) :
        n \in 0..MaxTimestampWrites, o \in 0..1}

QueryTraces ==
    {ResolveTrace(stream, <<>>) :
        stream \in SeqsUpTo(QueryBegins \cup {TraceCommand("endPass", NoArgs)},
                            MaxStream)}

InitQueries ==
    /\ trace \in QueryTraces
    /\ pc = At("data")
    /\ NoObjects
    /\ data = EmptyMap
    /\ NoReplay

SpecQueries == InitQueries /\ [][NextResolve]_vars

----------------------------------------------------------------------------
(* Textures: the load of a trace of up to MaxTextures textures, each       *)
(* available or destroyed, single- or multisampled, without initial data   *)
(* or with up to MaxSubResources subresources of it.                       *)

MaxTextures == 2
MaxSubResources == 2

TextureDescs ==
    {TextureDesc(st, initialData, sampleCount) :
        st \in {"available", "destroyed"},
        initialData \in {NoInitialData}
            \cup {InitialData([n \in 1..k |-> n - 1]) : k \in 0..MaxSubResources},
        sampleCount \in {1, 4}}

TextureTraces ==
    {[TraceObjects(1, 0, {}, 0, 0, {}) EXCEPT !["textures"] = Present(descs)] :
        descs \in SeqsUpTo(TextureDescs, MaxTextures) \ {<<>>}}

InitTextures ==
    /\ trace \in TextureTraces
    /\ pc = At("data")
    /\ NoObjects
    /\ data = EmptyMap
    /\ NoReplay

SpecTextures == InitTextures /\ [][NextResolve]_vars

----------------------------------------------------------------------------
(* Buffer writes: the load of a trace whose one command writes one of the  *)
(* data blobs into one of two buffers through the queue of one of the      *)
(* devices, then one call that executes the command.  A data serial past   *)
(* the blobs names no blob.                                                *)

WriteBlobs == <<<<1, 255>>, <<7>>>>
WriteOffsets == {0, 4}

WriteObjects == TraceObjects(MaxAdapters, 0, {}, 0, 2, {})

WriteTrace(q, b, offset, d) ==
    [WriteObjects EXCEPT
        !["data"] = WriteBlobs,
        !["commands"] =
            <<TraceQueueCommand("queueWriteBuffer", q,
                [bufferSerial |-> b, bufferOffset |-> offset,
                 data |-> [serial |-> d,
                           size |-> IF d \in DOMAIN WriteBlobs
                                    THEN Len(WriteBlobs[d]) ELSE 0]])>>]

WriteTraces ==
    {WriteTrace(q, b, offset, d) :
        q \in 1..MaxAdapters, b \in 1..2, offset \in WriteOffsets,
        d \in 1..(Len(WriteBlobs) + 1)}

InitWrite ==
    /\ trace \in WriteTraces
    /\ pc = At("data")
    /\ NoObjects
    /\ data = EmptyMap
    /\ NoReplay

NextWrite ==
    \/ CopyData
    \/ \E cat \in CategorySet : RecreateObjects(cat)
    \/ \E cat \in CategorySet : RecreateObjectsAsync(cat)
    \/ \E step \in pending : Resolve(step[1], step[2], step[3])
    \/ \E cat \in CategorySet : Resume(cat)
    \/ InitializeImplicit
    \/ ResolveCommands
    \/ pc = Done /\ call = NoCall /\ ExecuteCommand(0)
    \/ pc = Done /\ call = NoCall /\ ReplayTo(<<0>>)

SpecWrite == InitWrite /\ [][NextWrite]_vars

----------------------------------------------------------------------------
(* The second load: the traces of the resolution, loaded, and loaded once  *)
(* more when the first load has completed.                                 *)

NextReload ==
    \/ CopyData
    \/ \E cat \in CategorySet : RecreateObjects(cat)
    \/ \E cat \in CategorySet : RecreateObjectsAsync(cat)
    \/ \E step \in pending : Resolve(step[1], step[2], step[3])
    \/ \E cat \in CategorySet : Resume(cat)
    \/ InitializeImplicit
    \/ ResolveCommands
    \/ Reload

SpecReload == InitResolve /\ [][NextReload]_vars

----------------------------------------------------------------------------
(* What the claims speak of: the recorded calls, and the calls a full      *)
(* encoding makes in document order.                                        *)

IsReplayTo == call.op = "replayTo"
Path == call.path
Min(a, b) == IF a <= b THEN a ELSE b

IsPrefix(p, q) == Len(p) <= Len(q) /\ SubSeq(q, 1, Len(p)) = p

\* The recorded calls issued for the commands under path p.
OpsAt(p) == SelectSeq(ops, LAMBDA e : IsPrefix(p, e.at))

\* The WebGPU calls of a sequence of events.
Calls(events) == [n \in DOMAIN events |-> events[n].op]

RECURSIVE Flatten(_)
Flatten(ss) == IF ss = <<>> THEN <<>> ELSE Head(ss) \o Flatten(Tail(ss))

\* A pass in full: begin, every child in order, end.
DocPassOps(rp, at) ==
    [l \in 1..Len(rp.commands) |->
        [op |-> IF rp.commands[l].name = "endPass" THEN "end"
                ELSE rp.commands[l].name,
         at |-> at \o <<l - 1>>]]

DocEncoderOps(c, at) ==
    IF c.name = "renderPass" THEN DocPassOps(c.renderPass, at)
    ELSE <<[op |-> c.name, at |-> at]>>

\* The first n commands of a command buffer in full.
DocBufferOps(cb, n, at) ==
    Flatten([k \in 1..n |-> DocEncoderOps(cb.commands[k], at \o <<k - 1>>)])

DocSubmitOps(cbs, at) ==
    <<[op |-> "createCommandEncoder", at |-> at]>>
    \o Flatten([j \in 1..Len(cbs) |->
                  DocBufferOps(cbs[j], Len(cbs[j].commands), at \o <<j - 1>>)])
    \o <<[op |-> "submit", at |-> at]>>

DocQueueOps(c, at) ==
    CASE c.name = "queueSubmit" -> DocSubmitOps(c.commandBuffers, at)
      [] c.name = "queueWriteBuffer" -> WriteBuffer(c, at, Start(EmptyState)).ops
      [] c.name = "queueWriteTexture" -> <<[op |-> "writeTexture", at |-> at]>>
      [] OTHER -> <<>>

\* The first n top-level commands in full.
DocPrefixOps(cmds, n) ==
    Flatten([i \in 1..n |-> DocQueueOps(cmds[i], <<i - 1>>)])

\* The call replayed into submission i (and buffer j, command k, child l).
IntoSubmit ==
    /\ IsReplayTo
    /\ Len(Path) >= 2
    /\ Path[1] < Len(commands)
    /\ commands[Path[1] + 1].name = "queueSubmit"
TargetBuffers == commands[Path[1] + 1].commandBuffers
IntoBuffer == IntoSubmit /\ Path[2] < Len(TargetBuffers)
TargetBuffer == TargetBuffers[Path[2] + 1]
IntoCommand ==
    /\ IntoBuffer
    /\ Len(Path) >= 3
    /\ Path[3] < Len(TargetBuffer.commands)
TargetCommand == TargetBuffer.commands[Path[3] + 1]
IntoPass == IntoCommand /\ TargetCommand.name = "renderPass"
TargetPass == TargetCommand.renderPass

----------------------------------------------------------------------------
(* C1..C10: partial replay. *)

\* C1: replayTo([i, j, ...]) into a submission fully encodes every command
\* buffer before buffer j, in order, before anything of buffer j: none of
\* them is skipped.
C1_BuffersBeforeTargetEncoded ==
    IntoBuffer =>
        LET i == Path[1]
            j == Path[2]
            before == Flatten([m \in 1..j |->
                         DocBufferOps(TargetBuffers[m],
                                      Len(TargetBuffers[m].commands),
                                      <<i, m - 1>>)])
            enc == SelectSeq(OpsAt(<<i>>), LAMBDA e : Len(e.at) >= 2)
        IN /\ Len(enc) >= Len(before)
           /\ SubSeq(enc, 1, Len(before)) = before

\* C2: replayTo([i, j]) with a two-element path into a submission encodes
\* every command of buffer j, passes from begin to end, exactly once.
C2_TwoElementPathEncodesBuffer ==
    (IntoBuffer /\ Len(Path) = 2) =>
        OpsAt(<<Path[1], Path[2]>>) =
            DocBufferOps(TargetBuffer, Len(TargetBuffer.commands),
                         <<Path[1], Path[2]>>)

\* C3: replayTo(endPath()) completes without error and executes every
\* top-level command exactly once in order.
C3_EndPathIsFullReplay ==
    (IsReplayTo /\ Path = EndPath(commands)) =>
        /\ status = "ok"
        /\ ops = DocPrefixOps(commands, Len(commands))

\* The paths iterateCommands emits for the session's tree.
EmittedPaths ==
    LET items == IterateCommands(commands).items
    IN {items[n].path : n \in DOMAIN items}

\* C4: replayTo(p) completes without error and without reaching an
\* unhandled-command branch exactly for the paths p iterateCommands emits.
C4_AcceptedPathsAreEmittedPaths ==
    (IsReplayTo /\ Path # <<>>) => ((status = "ok" /\ ~unhandled) <=> Path \in EmittedPaths)

\* Replay.execute applied to every top-level command in order.
RECURSIVE ExecuteFrom(_, _, _)
ExecuteFrom(cmds, i, r) ==
    IF r.threw \/ i >= Len(cmds) THEN r
    ELSE ExecuteFrom(cmds, i + 1, Execute(cmds[i + 1], <<i>>, r))

LastEmitted ==
    LET items == IterateCommands(commands).items
    IN items[Len(items)].path

\* C5: replayTo of the last emitted path issues the same sequence of
\* live-context calls as executing every top-level command with execute
\* (stated for the trees whose last command holds the last emitted path).
C5_LastPathEqualsFullExecution ==
    (/\ IsReplayTo
     /\ IterateCommands(commands).items # <<>>
     /\ Path = LastEmitted
     /\ Path[1] = Len(commands) - 1) =>
        Calls(ops) = Calls(ExecuteFrom(commands, 0, Start(EmptyState)).ops)

\* The snapshot built by the children 1..l of a pass.
RECURSIVE DocSnapshot(_, _)
DocSnapshot(rp, l) ==
    IF l = 0 THEN InitialPassState(rp.commands[1].args)
    ELSE PassStateAfter(DocSnapshot(rp, l - 1), rp.commands[l + 1])

\* C6: after replayTo([i, j, k, l]) with l >= 1 a child index of the pass,
\* the end marker's included, the current state is the snapshot built by
\* the children 1..l.
C6_StateIsSnapshot ==
    (IntoPass /\ Len(Path) = 4 /\ Path[4] >= 1
        /\ Path[4] < Len(TargetPass.commands)) =>
        state = DocSnapshot(TargetPass, Path[4])

\* C7: replayTo([i, j, k]) whose target k is a render pass encodes the pass
\* in full: begin, every child in order, end.
C7_ThreeElementPathEncodesPass ==
    (IntoPass /\ Len(Path) = 3) =>
        Calls(OpsAt(<<Path[1], Path[2], Path[3]>>)) =
            Calls(DocPassOps(TargetPass, <<Path[1], Path[2], Path[3]>>))

\* C8: replayTo(path) with first component t executes every top-level
\* command before t in full, once each and in ascending order, before any
\* call is made for command t.
C8_PrefixExecutedInOrder ==
    (IsReplayTo /\ Path # <<>>) =>
        LET t == Path[1]
            before == DocPrefixOps(commands, Min(t, Len(commands)))
        IN /\ Len(ops) >= Len(before)
           /\ SubSeq(ops, 1, Len(before)) = before
           /\ \A n \in (Len(before) + 1)..Len(ops) : ops[n].at[1] = t

\* C8's case: a submission holding a render pass precedes the target.
C8_Witness ==
    /\ IsReplayTo
    /\ status = "ok"
    /\ Len(Path) = 1
    /\ Path[1] >= 1
    /\ commands[1].name = "queueSubmit"
    /\ \E e \in {ops[n] : n \in DOMAIN ops} :
            e.op = "beginRenderPass" /\ e.at[1] = 0
    /\ \E e \in {ops[n] : n \in DOMAIN ops} : e.op = "end" /\ e.at[1] = 0

\* C9: when replayTo recurses into command buffer j with target k, every
\* command of the buffer before k is encoded once and in order, passes in
\* full (begin, children, end), before any call is made for command k.
C9_BufferPrefixEncodedInOrder ==
    (IntoBuffer /\ Len(Path) >= 3) =>
        LET k == Path[3]
            at == <<Path[1], Path[2]>>
            enc == OpsAt(at)
            before == DocBufferOps(TargetBuffer,
                                   Min(k, Len(TargetBuffer.commands)), at)
        IN /\ Len(enc) >= Len(before)
           /\ SubSeq(enc, 1, Len(before)) = before
           /\ \A n \in (Len(before) + 1)..Len(enc) : enc[n].at[3] = k

\* C9's case: a pass with a child precedes the target command.
C9_Witness ==
    /\ IntoCommand
    /\ status = "ok"
    /\ Path[3] >= 1
    /\ TargetBuffer.commands[1].name = "renderPass"
    /\ Len(TargetBuffer.commands[1].renderPass.commands) > 2
    /\ \E n \in DOMAIN ops : ops[n].at = <<Path[1], Path[2], Path[3]>>

\* The positions of ops that begin a pass, and those that end pass q.
Begins == {n \in DOMAIN ops : ops[n].op = "beginRenderPass"}
EndsOf(q) == {n \in DOMAIN ops : ops[n].op = "end" /\ IsPrefix(q, ops[n].at)}
PassOf(n) == SubSeq(ops[n].at, 1, 3)
SubmitsOf(q) == {n \in DOMAIN ops : ops[n].op = "submit" /\ ops[n].at = <<q[1]>>}

\* C10: a pass the driver begins on an encoder is never ended twice, and is
\* ended exactly once, after its begin, before that encoder is submitted.
C10_PassEndedExactlyOnce ==
    \A n \in Begins :
        /\ Cardinality(EndsOf(PassOf(n))) <= 1
        /\ \A m \in EndsOf(PassOf(n)) : m > n
        /\ \A s \in SubmitsOf(PassOf(n)) :
              /\ s > n
              /\ Cardinality(EndsOf(PassOf(n))) = 1
              /\ \A m \in EndsOf(PassOf(n)) : m < s

\* C10's case: one call ends a pass by its end marker and force-ends another.
C10_Witness ==
    /\ IsReplayTo
    /\ status = "ok"
    /\ Len(Path) = 4
    /\ Path[4] >= 1
    /\ \E n \in Begins : \E m \in EndsOf(PassOf(n)) : Len(ops[m].at) = 4
    /\ \E n \in Begins : \E m \in EndsOf(PassOf(n)) : Len(ops[m].at) = 3
    /\ \E n \in DOMAIN ops : ops[n].op = "submit"

----------------------------------------------------------------------------
(* C11..C16: the begin marker, the snapshot, the enumerator, sessions. *)

\* C11: replayTo([i, j, k, 0]), the begin marker of a render pass, issues no
\* call for that pass (no beginRenderPass, no draw, bind or set command, no
\* end), and the current state is the begin command's arguments.
C11_BeginMarkerEncodesNothing ==
    (IntoPass /\ Len(Path) = 4 /\ Path[4] = 0) =>
        /\ OpsAt(<<Path[1], Path[2], Path[3]>>) = <<>>
        /\ state = [kind |-> "beginArgs", args |-> TargetPass.commands[1].args]
        /\ status = "ok"

\* C11's case: the begin marker of a pass that follows another command of
\* its buffer, in a submission that is then submitted.
C11_Witness ==
    /\ IntoPass
    /\ Len(Path) = 4
    /\ Path[4] = 0
    /\ Path[3] >= 1
    /\ Len(TargetPass.commands) > 2
    /\ \E n \in DOMAIN ops : ops[n].op = "submit"

\* The children 1..l of pass rp that are of the given kind, and the last.
ChildrenOf(rp, l, kind) == {n \in 1..l : rp.commands[n + 1].name = kind}
LastOf(rp, ns) == rp.commands[(CHOOSE n \in ns : \A m \in ns : m <= n) + 1].args

\* The children that set bind group index x, and vertex buffer slot x.
GroupSets(rp, l, x) ==
    {n \in ChildrenOf(rp, l, "setBindGroup") : rp.commands[n + 1].args.index = x}
SlotSets(rp, l, x) ==
    {n \in ChildrenOf(rp, l, "setVertexBuffer") : rp.commands[n + 1].args.slot = x}

\* C12: after replayTo([i, j, k, l]) to a child l before the end marker, the
\* state records, for the children 1..l only, the last setPipeline (null if
\* none), per group index the last setBindGroup, per slot the buffer, offset
\* and size of the last setVertexBuffer, the last setIndexBuffer (null buffer
\* if none) and the last setViewport (else the first attachment's full size).
C12_SnapshotRecordsLastSetters ==
    (IntoPass /\ Len(Path) = 4 /\ Path[4] >= 1
        /\ Path[4] < Len(TargetPass.commands) - 1) =>
        LET rp == TargetPass
            l == Path[4]
            first == rp.commands[1].args.colorAttachments[1]
            pipes == ChildrenOf(rp, l, "setPipeline")
            idx == ChildrenOf(rp, l, "setIndexBuffer")
            views == ChildrenOf(rp, l, "setViewport")
            groups == {rp.commands[n + 1].args.index :
                          n \in ChildrenOf(rp, l, "setBindGroup")}
            slots == {rp.commands[n + 1].args.slot :
                          n \in ChildrenOf(rp, l, "setVertexBuffer")}
        IN /\ state.kind = "renderPass"
           /\ state.pipeline =
                 IF pipes = {} THEN "null" ELSE LastOf(rp, pipes).pipeline
           /\ DOMAIN state.bindGroups = groups
           /\ \A x \in groups :
                 state.bindGroups[x].group = LastOf(rp, GroupSets(rp, l, x)).bindGroup
           /\ DOMAIN state.vertexBuffers = slots
           /\ \A x \in slots :
                 LET a == LastOf(rp, SlotSets(rp, l, x))
                 IN state.vertexBuffers[x] =
                        [buffer |-> a.buffer, offset |-> a.offset, size |-> a.size]
           /\ state.indexBuffer =
                 IF idx = {} THEN [buffer |-> "null", offset |-> 0, size |-> 0]
                 ELSE LET a == LastOf(rp, idx)
                      IN [buffer |-> a.buffer, offset |-> a.offset, size |-> a.size]
           /\ state.viewport =
                 IF views = {}
                 THEN [x |-> 0, y |-> 0, width |-> first.width,
                       height |-> first.height, minDepth |-> 0, maxDepth |-> 1]
                 ELSE LastOf(rp, views)

\* C12's case: the target follows two setBindGroup commands of different
\* indices, and the pass holds a later command.
C12_Witness ==
    /\ IntoPass
    /\ Len(Path) = 4
    /\ Path[4] = 2
    /\ Path[4] < Len(TargetPass.commands) - 1
    /\ Cardinality(DOMAIN state.bindGroups) = 2
    /\ status = "ok"

\* Path p lies before path q in document order.
DocBefore(p, q) ==
    \E n \in 1..Min(Len(p), Len(q)) :
        /\ p[n] < q[n]
        /\ \A m \in 1..(n - 1) : p[m] = q[m]

\* The recorded calls made for a command: not the encoder's own
\* createCommandEncoder and submit, not the forced end of a pass.
CommandEvents ==
    SelectSeq(ops, LAMBDA e :
        /\ e.op \notin {"createCommandEncoder", "submit"}
        /\ ~(e.op = "end" /\ Len(e.at) = PathDepth - 1))

\* The live call a command stands for, and the kinds the driver handles
\* without one.
LiveCall(c) ==
    CASE c.name = "queueWriteBuffer" -> "writeBuffer"
      [] c.name = "queueWriteTexture" -> "writeTexture"
      [] c.name = "endPass" -> "end"
      [] OTHER -> c.name
SilentKinds ==
    {"present", "textureDestroy", "bufferUpdateData", "bufferUnmap",
     "beginRenderPass"}

\* The emitted items whose path is the path of the call.
ItemsAtPath ==
    LET items == IterateCommands(commands).items
    IN {items[n] : n \in {m \in DOMAIN items : items[m].path = Path}}

DocPassLeaves(rp, at) ==
    [l \in 1..Len(rp.commands) |->
        [path |-> at \o <<l - 1>>, command |-> rp.commands[l]]]

DocBufferLeaves(cb, at) ==
    Flatten([k \in 1..Len(cb.commands) |->
        IF cb.commands[k].name = "renderPass"
        THEN DocPassLeaves(cb.commands[k].renderPass, at \o <<k - 1>>)
        ELSE <<[path |-> at \o <<k - 1>>, command |-> cb.commands[k]]>>])

DocLeaves(cmds) ==
    Flatten([i \in 1..Len(cmds) |->
        IF cmds[i].name = "queueSubmit"
        THEN Flatten([j \in 1..Len(cmds[i].commandBuffers) |->
                        DocBufferLeaves(cmds[i].commandBuffers[j], <<i - 1, j - 1>>)])
        ELSE <<[path |-> <<i - 1>>, command |-> cmds[i]]>>])

\* C14: iterateCommands emits exactly one (path, command) pair for every
\* leaf of the resolved tree and none for a container, in document order,
\* the path being the leaf's positional indices (length 1, 3 or 4).
C14_OnePairPerLeaf ==
    call.op = "iterateCommands" => emitted = DocLeaves(commands)

\* The calls that send work to the live queue.
QueueCalls == {"submit", "writeBuffer", "writeTexture"}

\* The session's call before the most recent one.
Previous == history[Len(history)]

\* C15: after replayTo(P), a replayTo(P') in the same session with P' later
\* in document order sends no submission or write again that the first
\* call already sent to the queue for a command before P's top-level index.
C15_PrefixNotResent ==
    (/\ IsReplayTo
     /\ history # <<>>
     /\ Previous.call.op = "replayTo"
     /\ Previous.status = "ok"
     /\ status = "ok"
     /\ DocBefore(Previous.call.path, Path)) =>
        \A n \in DOMAIN ops :
            (ops[n].op \in QueueCalls /\ ops[n].at[1] < Previous.call.path[1]) =>
                \A m \in DOMAIN Previous.ops : Previous.ops[m] # ops[n]

\* The live calls that end or start the life of a texture or a buffer.
LifetimeCalls == {"destroy", "createTexture", "createBuffer"}

\* Every live-context call the session's calls have issued, in order.
SessionOps ==
    Flatten([n \in DOMAIN history |-> history[n].ops]) \o ops

\* C16: no call of a session, execute or replayTo, destroys or creates a
\* live texture or buffer: a textureDestroy command is a no-op, so
\* executing the command list twice destroys and creates nothing.
C16_ExecutionDestroysNothing ==
    \A n \in DOMAIN SessionOps : SessionOps[n].op \notin LifetimeCalls

\* C16's case: a command list holding a textureDestroy executed in full by
\* execute, twice in one session.
C16_Witness ==
    /\ history # <<>>
    /\ Len(commands) = 1
    /\ commands[1].name = "textureDestroy"
    /\ call = [op |-> "execute", path |-> <<0>>]
    /\ Previous.call = call
    /\ status = "ok"
    /\ Previous.status = "ok"

----------------------------------------------------------------------------
(* C17..C20: the reconstruction phases of load. *)

\* The reconstruction phase of a category; the implicit layouts are
\* resolved between the render pipelines and the buffers.
Phase(cat) ==
    CASE cat = "adapters" -> 1
      [] cat = "devices" -> 2
      [] cat = "queues" -> 3
      [] cat \in {"bindGroupLayouts", "pipelineLayouts", "shaderModules"} -> 4
      [] cat = "renderPipelines" -> 5
      [] OTHER -> 7

\* A construction of the category has started; every construction of the
\* category has completed, its asynchronous steps included.
Started(cat) == \E id \in DOMAIN objects : id[1] = cat
Complete(cat) ==
    \A s \in Serials(cat) :
        /\ <<cat, s>> \in DOMAIN objects
        /\ objects[<<cat, s>>].settled
        /\ cat \in AsyncCategories => WebgpuObject(cat, s) # Undefined
        /\ \A step \in pending : ~(step[1] = cat /\ step[2] = s)

\* An implicit layout has been given its handle.
SomeImplicitResolved ==
    \E id \in DOMAIN objects : objects[id].implicit /\ objects[id].webgpuObject # Undefined

\* C17: no construction of a later phase has started unless every
\* construction of each earlier phase has completed, asynchronous steps
\* included; no device is requested before every adapter is acquired and no
\* implicit layout is resolved before every pipeline is created.
C17_PhasesAreBarriers ==
    /\ \A c1, c2 \in CategorySet :
          (Phase(c1) < Phase(c2) /\ Started(c2)) => Complete(c1)
    /\ (\E step \in pending : step[3] = "requestDevice") => Complete("adapters")
    /\ SomeImplicitResolved => Complete("renderPipelines")

\* C17's case: a load that acquired several adapters and created several
\* pipelines in any order of completion and resolved an implicit layout.
C17_Witness ==
    /\ pc = Done
    /\ Len(trace["adapters"].descs) >= 2
    /\ Len(trace["renderPipelines"].descs) >= 2
    /\ SomeImplicitResolved

\* C18: after a completed load, every wrapper with a live handle is found
\* under its serial, and its handle is a key of its category's
\* handle-to-wrapper map (the <category>ToReplayMap field) with that
\* wrapper as the value.
C18_HandleLookupFindsWrapper ==
    pc = Done =>
        \A id \in DOMAIN objects :
            objects[id].webgpuObject # Undefined =>
                LET map == handleMaps[DeclaredMapField(id[1])]
                IN /\ Has(id[1], id[2])
                   /\ map.defined
                   /\ objects[id].webgpuObject \in DOMAIN map.entries
                   /\ map.entries[objects[id].webgpuObject] = id[2]

\* The categories the trace lacks.
AbsentCategories == {c \in CategorySet : ~trace[c].present}

\* C19: the load of a trace that lacks an unused category does not abort,
\* and once it completes the category's registry is empty.
C19_AbsentCategoryLoads ==
    AbsentCategories # {} =>
        /\ pc # Failed
        /\ pc = Done =>
              \A c \in AbsentCategories :
                  registry[c] = [defined |-> TRUE, serials |-> {}]

\* The implicit bind-group layouts of the trace.
ImplicitSerials ==
    {s \in Serials("bindGroupLayouts") : ~Desc("bindGroupLayouts", s).entries}

\* The pipeline phase has not completed yet.
BeforeImplicit ==
    pc.at \in {Categories[n] : n \in 1..IndexOf("renderPipelines")}

\* C20: after load an implicit layout's live handle is the one its owning
\* pipeline returns for the recorded group index; until the pipeline phase
\* has completed the handle is unset, and no construction reads it unset.
C20_ImplicitLayoutFromPipeline ==
    \A s \in ImplicitSerials :
        LET d == Desc("bindGroupLayouts", s)
            id == <<"bindGroupLayouts", s>>
        IN /\ pc = Done =>
                 /\ WebgpuObject("renderPipelines", d.renderPipelineSerial) # Undefined
                 /\ objects[id].webgpuObject =
                        GetBindGroupLayout(
                            WebgpuObject("renderPipelines", d.renderPipelineSerial),
                            d.groupIndex)
           /\ (BeforeImplicit /\ id \in DOMAIN objects) =>
                 objects[id].webgpuObject = Undefined
           /\ \A r \in reads : r.of = id => r.value # Undefined

\* C20's case: a loaded trace with an implicit layout at a group index
\* other than the first, read by a bind group.
C20_Witness ==
    /\ pc = Done
    /\ \E s \in ImplicitSerials :
          /\ Desc("bindGroupLayouts", s).groupIndex >= 1
          /\ \E r \in reads :
                r.of = <<"bindGroupLayouts", s>> /\ r.by[1] = "bindGroups"

----------------------------------------------------------------------------
(* C21..C30: the trace, the resolver, sessions, the second load. *)

\* C21: loading a trace and replaying it leave the Trace value unchanged: no
\* step of load, execute or replayTo writes a field of the trace's data, of a
\* descriptor or of a command.
C21_TraceUnchanged == [][trace' = trace]_vars

\* A step that is a call of replayTo.
IsReplayToStep == CallsMade' = CallsMade + 1 /\ call'.op = "replayTo"

\* The call before this one was a replayTo that aborted with an error.
AfterFailedReplayTo == call.op = "replayTo" /\ status = "threw"

RECURSIVE StateOfLastPresent(_, _)
StateOfLastPresent(cmds, i) ==
    IF i < 0 THEN EmptyState
    ELSE IF cmds[i + 1].name = "present" THEN PresentState(cmds[i + 1])
    ELSE StateOfLastPresent(cmds, i - 1)

\* The target of the path is a queue command or a command of a command
\* buffer, not a command of a render pass.
OutsidePass(path) == Len(path) \in {1, 3}

IsEnumerationStep ==
    CallsMade' = CallsMade + 1 /\ call'.op \in {"iterateCommands", "iterateSome"}

\* The earlier enumerations of the session that ran to their end.
FullEnumerations ==
    {history'[h].emitted :
        h \in {x \in DOMAIN history' : history'[x].call.op = "iterateCommands"}}

C27_OneBufferWrite ==
    LET t == trace["commands"][1]
    IN (/\ call.op \in {"execute", "replayTo"}
        /\ commands[1].name = "queueWriteBuffer"
        /\ t.args.data.serial \in DOMAIN trace["data"]) =>
          /\ status = "ok"
          /\ Len(ops) = 1
          /\ ops[1].op = "writeBuffer"
          /\ ops[1].on = WebgpuObject("queues", t.queueSerial)
          /\ ops[1].on # Undefined
          /\ ops[1].args.buffer = WebgpuObject("buffers", t.args.bufferSerial)
          /\ ops[1].args.buffer # Undefined
          /\ ops[1].args.bufferOffset = t.args.bufferOffset
          /\ ops[1].args.data = ToBytes(trace["data"][t.args.data.serial])

\* The second blob written at offset 4 into the second buffer through the
\* second device's queue, by execute.
C27_Witness ==
    /\ call.op = "execute"
    /\ Len(ops) = 1
    /\ ops[1].op = "writeBuffer"
    /\ ops[1].on = <<"GPUQueue", 2, 0>>
    /\ ops[1].args.buffer = Handle("buffers", 2)
    /\ ops[1].args.bufferOffset = 4
    /\ ops[1].args.data = <<7>>

\* The render passes of the resolved tree.
PassesOf(cmds) ==
    {cmds[i].commandBuffers[j].commands[k].renderPass :
        <<i, j, k>> \in
            {x \in (DOMAIN cmds) \X (1..MaxCBs) \X (1..(MaxStream + 1)) :
                /\ x[2] \in DOMAIN cmds[x[1]].commandBuffers
                /\ x[3] \in DOMAIN cmds[x[1]].commandBuffers[x[2]].commands
                /\ cmds[x[1]].commandBuffers[x[2]].commands[x[3]].name = "renderPass"}}

\* The plain commands of the resolved tree's command buffers.
EncoderCommandsOf(cmds) ==
    {cmds[x[1]].commandBuffers[x[2]].commands[x[3]] :
        x \in {y \in (DOMAIN cmds) \X (1..MaxCBs) \X (1..(MaxStream + 1)) :
                /\ y[2] \in DOMAIN cmds[y[1]].commandBuffers
                /\ y[3] \in DOMAIN cmds[y[1]].commandBuffers[y[2]].commands
                /\ cmds[y[1]].commandBuffers[y[2]].commands[y[3]].name # "renderPass"}}

\* The kinds resolution has a case for, at each level.
QueueResolveKinds ==
    {"queueSubmit", "queueWriteBuffer", "queueWriteTexture", "present",
     "textureDestroy", "bufferUpdateData", "bufferUnmap"}
EncoderResolveKinds ==
    {"beginRenderPass", "copyBufferToTexture", "copyTextureToTexture",
     "pushDebugGroup", "popDebugGroup"}
PassResolveKinds ==
    {"endPass", "setBindGroup", "setIndexBuffer", "setPipeline",
     "setVertexBuffer", "draw", "drawIndexed", "setViewport", "pushDebugGroup",
     "popDebugGroup"}

\* C22: a command of an unrecognized kind, at the queue level, in a command
\* buffer or inside a render pass, makes load fail: a completed load's tree
\* holds no placeholder and no command of a kind resolution has no case for.
C22_UnrecognizedKindFailsResolution ==
    pc = Done =>
        /\ \A i \in DOMAIN commands : commands[i].name \in QueueResolveKinds
        /\ \A c \in EncoderCommandsOf(commands) : c.name \in EncoderResolveKinds
        /\ \A rp \in PassesOf(commands) :
              \A l \in 2..Len(rp.commands) : rp.commands[l].name \in PassResolveKinds

\* C23: a stream with a beginRenderPass that no endPass follows makes load
\* fail: a completed load's tree holds no render pass without the end
\* marker as its last command.
C23_UnterminatedPassFailsResolution ==
    pc = Done =>
        \A rp \in PassesOf(commands) :
            rp.commands[Len(rp.commands)].name = "endPass"

\* C30: every render pass of every resolved tree has a non-empty command
\* list whose first element is the begin marker and whose last element is
\* the end marker, with no begin or end marker in between.
C30_PassesAreBracketed ==
    \A rp \in PassesOf(commands) :
        /\ rp.commands # <<>>
        /\ rp.commands[1].name = "beginRenderPass"
        /\ Len(rp.commands) >= 2
        /\ rp.commands[Len(rp.commands)].name = "endPass"
        /\ \A l \in 2..(Len(rp.commands) - 1) :
              rp.commands[l].name \notin {"beginRenderPass", "endPass"}

\* C28: a second load of the Trace value a first load has completed on
\* completes too, and yields registries with the same serials in every
\* category, wrappers under the same names, the same data and a command
\* tree of the same kinds at the same paths referring to the same wrappers
\* (a live handle is named by the serial of its wrapper).
C28_SecondLoadIsIsomorphic ==
    (sessions # <<>> /\ pc \in {Done, Failed}) =>
        /\ pc = Done
        /\ registry = sessions[1].registry
        /\ DOMAIN objects = DOMAIN sessions[1].objects
        /\ data = sessions[1].data
        /\ commands = sessions[1].commands

\* A second load completed on a trace in which the first load has replaced
\* the layout of a pipeline's descriptor, with a pass that sets a pipeline.
C28_Witness ==
    /\ sessions # <<>>
    /\ pc = Done
    /\ trace["renderPipelines"].descs[1].layout = <<"pipelineLayouts", 1>>
    /\ \E rp \in PassesOf(commands) :
          \E l \in DOMAIN rp.commands : rp.commands[l].name = "setPipeline"

\* The lookups by serial of the step load makes next: those of the
\* constructors (and of the part of recreate before its first await) of the
\* category at hand, of initializeFromImplicitDesc, of the command map.
LookupsNow ==
    IF pc.awaiting THEN {}
    ELSE IF pc.at \in CategorySet
    THEN IF trace[pc.at].present
         THEN UNION {Needs(pc.at, Desc(pc.at, s)) : s \in Serials(pc.at)}
         ELSE {}
    ELSE IF pc.at = "implicit"
    THEN {<<"renderPipelines", Desc("bindGroupLayouts", s).renderPipelineSerial,
            "receiver">> : s \in ImplicitLayouts}
    ELSE IF pc.at = "commands"
    THEN UNION {QueueNeeds(trace["commands"][n]) : n \in DOMAIN trace["commands"]}
    ELSE {}

\* The categories whose wrappers hold a live handle (a command buffer is
\* recorded anew by every replay).
HandleCategories == CategorySet \ {"commandBuffers"}

----------------------------------------------------------------------------
(* C31..C40: the resolver's stream, submissions, textures, copies, query   *)
(* sets, kinds, the submission row, the target, two loads, the path.       *)

\* The kinds of a resolved command buffer's commands, each render pass
\* replaced by its children.
RECURSIVE FlatKinds(_)
FlatKinds(cmds) ==
    IF cmds = <<>> THEN <<>>
    ELSE (IF Head(cmds).name = "renderPass"
          THEN [l \in DOMAIN Head(cmds).renderPass.commands |->
                    Head(cmds).renderPass.commands[l].name]
          ELSE <<Head(cmds).name>>) \o FlatKinds(Tail(cmds))

\* C31: the resolved commands of every command buffer, flattened, have the
\* kinds of the descriptor's stream in the stream's order, each command
\* once; and no pass holds a command after an end marker: what follows an
\* endPass is a command of the buffer.
C31_StreamConsumedOnce ==
    \A id \in DOMAIN objects :
        id[1] = "commandBuffers" =>
            /\ FlatKinds(objects[id].commands) =
                   [n \in DOMAIN Desc(id[1], id[2]).commands |->
                       Desc(id[1], id[2]).commands[n].name]
            /\ \A c \in {objects[id].commands[k] : k \in DOMAIN objects[id].commands} :
                  c.name = "renderPass" =>
                      \A l \in 1..(Len(c.renderPass.commands) - 1) :
                          c.renderPass.commands[l].name # "endPass"

\* A loaded buffer that holds a pass with its end marker and, after it, a
\* command of the buffer.
C31_Witness ==
    /\ pc = Done
    /\ <<"commandBuffers", 1>> \in DOMAIN objects
    /\ LET cmds == objects[<<"commandBuffers", 1>>].commands
       IN /\ Len(cmds) = 2
          /\ cmds[1].name = "renderPass"
          /\ Len(cmds[1].renderPass.commands) = 2
          /\ cmds[2].name = "pushDebugGroup"

\* The top-level indices a completed call has executed: the command of an
\* execute, the commands up to the target of a replayTo.
ExecutedIndices ==
    IF call.path = <<>> THEN {}
    ELSE IF call.op = "execute" THEN {call.path[1]}
    ELSE IF call.op = "replayTo" THEN 0..Min(call.path[1], Len(commands) - 1)
    ELSE {}

\* The calls made for top-level command i, in the order they were made.
OpsOf(i) == SelectSeq(ops, LAMBDA e : e.at[1] = i)

TexturesBuilt == {id \in DOMAIN objects : id[1] = "textures"}

\* C33: the constructor of a texture whose descriptor records the state
\* destroyed creates the texture, destroys it at once and writes no initial
\* data, with or without initial data in the descriptor.
C33_DestroyedTexturesAreDestroyed ==
    \A id \in TexturesBuilt :
        Desc("textures", id[2]).state = "destroyed" =>
            [n \in DOMAIN objects[id].calls |-> objects[id].calls[n].op]
                = <<"createTexture", "destroy">>

\* The resolved copy commands of the command buffers load has constructed.
CopiesResolved ==
    UNION {{objects[id].commands[k] :
              k \in {n \in DOMAIN objects[id].commands :
                        objects[id].commands[n].name \in
                            {"copyBufferToTexture", "copyTextureToTexture"}}} :
           id \in {x \in DOMAIN objects : x[1] = "commandBuffers"}}

\* C34: each end of a resolved copy command holds the wrapper of the buffer
\* or texture its serial names and, as the buffer or texture it passes to
\* the encoder, that wrapper's live handle.
C34_CopyEndsHoldLiveHandles ==
    \A c \in CopiesResolved :
        \A x \in {c.args.source, c.args.destination} :
            /\ x.state # NoWrapper
            /\ x.state.webgpuObject # Undefined
            /\ x.live = x.state.webgpuObject

\* The begin payloads of the passes load has resolved, each with the
\* arguments of the beginRenderPass it was resolved from.
BeginsResolved ==
    UNION {{<<Desc(id[1], id[2]).commands[n].args,
              objects[id].commands[k].renderPass.commands[1].args>> :
              <<n, k>> \in
                {x \in (DOMAIN Desc(id[1], id[2]).commands)
                          \X (DOMAIN objects[id].commands) :
                    /\ Desc(id[1], id[2]).commands[x[1]].name = "beginRenderPass"
                    /\ objects[id].commands[x[2]].name = "renderPass"
                    /\ Cardinality({m \in 1..x[1] :
                           Desc(id[1], id[2]).commands[m].name = "beginRenderPass"})
                       = Cardinality({m \in 1..x[2] :
                           objects[id].commands[m].name = "renderPass"})}} :
           id \in {x \in DOMAIN objects : x[1] = "commandBuffers"}}

\* C35: the load does not fail on a beginRenderPass, whatever its timestamp
\* writes and occlusion query set, and the begin payload holds for each
\* timestamp write and for the occlusion query set the wrapper of the
\* query set and that wrapper's live handle.
C35_QuerySetsResolved ==
    /\ pc # Failed
    /\ \A b \in BeginsResolved :
          /\ Len(b[2].timestampWrites) = Len(b[1].timestampWrites)
          /\ \A w \in DOMAIN b[2].timestampWrites :
                /\ b[2].timestampWrites[w].querySetState
                       = WrapperOf("querySets", b[1].timestampWrites[w])
                /\ b[2].timestampWrites[w].querySet
                       = WebgpuObject("querySets", b[1].timestampWrites[w])
          /\ b[1].occlusionQuerySetSerial # 0 =>
                /\ b[2].occlusionQuerySetState
                       = WrapperOf("querySets", b[1].occlusionQuerySetSerial)
                /\ b[2].occlusionQuerySet
                       = AsHandle(WebgpuObject("querySets", b[1].occlusionQuerySetSerial))

\* Every command of the tree is of a kind resolution has a case for at its
\* level, or the declared pass kind setScissorRect.
TreeOfResolvedKinds ==
    /\ \A i \in DOMAIN commands : commands[i].name \in QueueResolveKinds
    /\ \A c \in EncoderCommandsOf(commands) : c.name \in EncoderResolveKinds
    /\ \A rp \in PassesOf(commands) :
          \A l \in DOMAIN rp.commands :
              rp.commands[l].name \in
                  PassResolveKinds \cup {"beginRenderPass", "setScissorRect"}

\* C36: on a tree of resolved kinds, no execute, replayTo or iterateCommands
\* call reaches the default branch of a switch (an unhandled-command
\* assertion), and an enumeration emits every leaf.
C36_LevelsAgreeOnKinds ==
    (TreeOfResolvedKinds /\ call # NoCall) =>
        /\ ~unhandled
        /\ call.op = "iterateCommands" => emitted = DocLeaves(commands)

\* The call is a replayTo with the path of a submission's own row: one
\* element, the index of a queueSubmit.
OntoSubmit ==
    /\ IsReplayTo
    /\ Len(Path) = 1
    /\ Path[1] < Len(commands)
    /\ commands[Path[1] + 1].name = "queueSubmit"

\* C37: replayTo([i]) on a queueSubmit completes without an error, and has
\* encoded every command buffer of the submission in full and submitted
\* the encoder.
C37_SubmissionRowReplaysInFull ==
    OntoSubmit =>
        /\ status = "ok"
        /\ OpsAt(Path) = DocSubmitOps(commands[Path[1] + 1].commandBuffers, Path)

\* Position at lies after path p in document order: they part at some
\* level, and at has the greater index there.
LiesAfter(at, p) ==
    \E n \in 1..Min(Len(at), Len(p)) :
        /\ at[n] > p[n]
        /\ \A k \in 1..(n - 1) : at[k] = p[k]

\* C38: a replayTo(p), completed or not, issues no call for a command that
\* lies after p: none for a later top-level command, a later command
\* buffer, a later buffer command or a later pass child.  The forced end
\* is issued for the open pass, which p lies in.
C38_NothingPastTheTarget ==
    IsReplayTo => \A n \in DOMAIN ops : ~LiesAfter(ops[n].at, Path)

\* A completed replayTo onto a pass child that has a command after it at
\* every level, with the open pass force-ended.
C38_Witness ==
    /\ IntoPass
    /\ status = "ok"
    /\ Len(Path) = 4
    /\ Path[1] + 1 < Len(commands)
    /\ Path[2] + 1 < Len(TargetBuffers)
    /\ Path[3] + 1 < Len(TargetBuffer.commands)
    /\ Path[4] + 1 < Len(TargetPass.commands)
    /\ Path[4] >= 1
    /\ \E n \in DOMAIN ops : ops[n].op = "end" /\ ops[n].at = SubSeq(Path, 1, 3)

\* C39: every adapter of every loadReplay call is requested through, and
\* comes from, the function passed to that call, whatever other calls are
\* in flight and whatever the module-level variable holds by now.
C39_AdaptersThroughOwnFunction ==
    \A s \in DOMAIN loads :
        \A a \in DOMAIN loads[s].adapters :
            /\ loads[s].adapters[a].through = loads[s].fn
            /\ loads[s].adapters[a].webgpuObject # Undefined =>
                  loads[s].adapters[a].webgpuObject[2] = loads[s].fn

\* Two loads in flight, the variable holding the second call's function,
\* and an adapter of the first handed over since.
C39_Witness ==
    /\ Len(loads) = 2
    /\ loads[1].awaiting /\ loads[2].awaiting
    /\ loads[1].fn # loads[2].fn
    /\ requestUnwrappedAdapter = loads[2].fn
    /\ \E a, b \in DOMAIN loads[1].adapters :
          /\ loads[1].adapters[a].webgpuObject # Undefined
          /\ loads[1].adapters[b].webgpuObject = Undefined
    /\ \E a \in DOMAIN loads[2].adapters :
          loads[2].adapters[a].webgpuObject # Undefined

====
